---- MODULE Spec2Model ----
(***************************************************************************)
(* vault-service: the gateway process (server.ts + VaultManager.ts, kept   *)
(* in src/unnamed/part_000) in front of a backing secret store.            *)
(*                                                                         *)
(* The model follows one gateway process at a time through startServer /   *)
(* initialize (health wait, policy seeding, secret seeding), then through  *)
(* the HTTP handlers it serves while listening, and through restarts of    *)
(* the process against the same backing store.                             *)
(***************************************************************************)
EXTENDS Integers, Sequences, FiniteSets, TLC

(***************************************************************************)
(* Bounds of the model.                                                    *)
(***************************************************************************)
MaxGen == 3       \* random draws (seed tables built + keys rotated)
MaxFaults == 1    \* seeding requests that fail, over the life of the store
MaxConc == 2      \* HTTP requests in flight at once

(***************************************************************************)
(* Program constants.                                                      *)
(***************************************************************************)
MaxRetries == 30  \* waitForVault(maxRetries = 30)

(***************************************************************************)
(* Values.  Every field value is a string in the program.  A value is      *)
(* modelled by its length and its identity: a literal is identified by its *)
(* text, a random string by the draw that produced it (two draws of        *)
(* crypto.randomBytes never produce the same string).  A timestamp is an   *)
(* opaque value: no code of the gateway or of its clients reads created_at *)
(* or rotated_at.                                                          *)
(***************************************************************************)
Lit(s) == [id |-> 0, str |-> s, len |-> Len(s)]

Undefined == [id |-> -1, str |-> "undefined", len |-> 0]

\* new Date().toISOString()
Timestamp == [id |-> 0, str |-> "toISOString", len |-> 24]

\* crypto.randomBytes(length).toString('hex'): two hex digits per byte
generateSecureKey(draw, slot, length) ==
    [id |-> draw, str |-> slot, len |-> 2 * length]

\* length characters drawn from the 70-character charset
generateSecurePassword(draw, slot, length) ==
    [id |-> draw, str |-> slot, len |-> length]

Field(doc, f) == IF f \in DOMAIN doc THEN doc[f] ELSE Undefined

\* JSON.stringify of a request body drops the properties whose value is undefined
Serialize(obj) ==
    [f \in {g \in DOMAIN obj : obj[g] # Undefined} |-> obj[f]]

(***************************************************************************)
(* The backing store: documents by path, policies by name.                 *)
(***************************************************************************)
Prefix == "secret/data/transcendence/"

\* mutant: a write merges the document into the one stored at the path
PutMerged(st, p, d) ==
    [q \in DOMAIN st \cup {p} |->
        IF q # p THEN st[q]
        ELSE IF p \notin DOMAIN st THEN d
        ELSE [f \in DOMAIN st[p] \cup DOMAIN d |->
                 IF f \in DOMAIN d THEN d[f] ELSE st[p][f]]]

\* vault.write(path, { data }): the document at the path is replaced
Put(st, p, d) == [q \in DOMAIN st \cup {p} |-> IF q = p THEN d ELSE st[q]]

EnvNames == {"GOOGLE_CLIENT_SECRET", "RATE_LIMIT_MAX"}

EnvChoices ==
    { [n \in EnvNames |-> ""],
      [n \in EnvNames |-> IF n = "RATE_LIMIT_MAX" THEN "50" ELSE "g-secret"] }

VARIABLES
    env,            \* process.env of the gateway
    phase,          \* where startServer/initialize stands
    i,              \* waitForVault: loop counter
    polIdx,         \* setupPolicies: index of the next policy
    secIdx,         \* storeInitialSecrets: index of the next seed path
    probe,          \* storeInitialSecrets: "read" (probe next) or "write"
    secrets,        \* storeInitialSecrets: the local table, <<>> out of scope
    isInitialized,  \* VaultManager.isInitialized
    listening,      \* app.listen has been called
    store,          \* backing store: path -> document
    policyStore,    \* backing store: policy name -> rules
    gen,            \* random draws made so far
    restarted,      \* this process is not the first one started against the store
    faults,         \* failed seeding requests so far
    log,            \* policy and secret requests issued by this process's initialize
    vaultReady,     \* waitForVault has returned in this process
    faulted,        \* a probe read of this process failed other than not-found
    reqs,           \* the HTTP requests in flight, by slot
    rotSeq,         \* the secrets the jwt document has held one after the other,
                    \* from its last write that was not a rotation of the stored
                    \* document, through the rotations that followed one another
    http,           \* the last HTTP exchange the gateway has answered, where the
                    \* specification observes the exchanges
    task,           \* client process: the call it was started for
    cstep,          \* client process: where the call stands
    attempt,        \* client process: counter of the retry loop that runs
    sent,           \* client process: requests sent by the retry loop that runs
    lastError,      \* client process: getSecret's lastError
    lastReply,      \* client process: the answer to the last request it sent
    result,         \* client process: what the call returned or threw
    delays,         \* client process: the sleeps of waitForVault, in order
    penv,           \* client process: process.env
    ready,          \* client process: its waitForVault has returned
    fetched,        \* client process: the sections of loadEnvFromVault a request
                    \* has been sent for, in the order of their first request
    emitted,        \* client process: the errors and log lines of the last
                    \* getSecret attempt
    inflight,       \* the backing-store requests initialize() has sent and that
                    \* are not answered yet, where the specification tells the
                    \* sending of a request from its answer
    suspended       \* initialize() is suspended on an await

vars == <<env, phase, i, polIdx, secIdx, probe, secrets, isInitialized, listening,
          store, policyStore, gen, restarted, faults, log, vaultReady, faulted,
          reqs, rotSeq, http, task, cstep, attempt, sent, lastError, lastReply,
          result, delays, penv, ready, fetched, emitted, inflight, suspended>>

\* the requests of initialize() in flight
seeding == <<inflight, suspended>>

\* the state of a dependent service's process
client ==
    <<task, cstep, attempt, sent, lastError, lastReply, result, delays, penv,
      ready, fetched, emitted>>

\* process.env.X || fallback: an empty string is falsy
Env(name, fallback) == IF env[name] # "" THEN Lit(env[name]) ELSE fallback

(***************************************************************************)
(* setupPolicies: the policy table.                                        *)
(***************************************************************************)
PolicyNames ==
    <<"transcendence-admin", "transcendence-service", "transcendence-auth",
      "transcendence-db">>

AllCaps == {"create", "read", "update", "delete", "list"}

Policies ==
    [n \in {PolicyNames[k] : k \in 1..Len(PolicyNames)} |->
        CASE n = "transcendence-admin" ->
               << <<"secret/data/transcendence/*", AllCaps>>,
                  <<"secret/metadata/transcendence/*", {"list", "delete"}>>,
                  <<"auth/token/*", AllCaps>> >>
          [] n = "transcendence-service" ->
               << <<Prefix \o "database", {"read"}>>,
                  <<Prefix \o "jwt", {"read"}>>,
                  <<Prefix \o "encryption", {"read"}>>,
                  <<Prefix \o "oauth", {"read"}>>,
                  <<Prefix \o "api", {"read"}>>,
                  <<"auth/token/lookup-self", {"read"}>> >>
          [] n = "transcendence-auth" ->
               << <<Prefix \o "database", {"read"}>>,
                  <<Prefix \o "jwt", {"read", "update"}>>,
                  <<Prefix \o "oauth", {"read"}>> >>
          [] n = "transcendence-db" ->
               << <<Prefix \o "database", {"read"}>> >>]

(***************************************************************************)
(* storeInitialSecrets: the seed table, built from one batch of random     *)
(* draws before the loop starts.                                           *)
(***************************************************************************)
SeedPaths ==
    <<Prefix \o "database", Prefix \o "jwt", Prefix \o "encryption",
      Prefix \o "oauth", Prefix \o "api", Prefix \o "services", Prefix \o "game">>

SeedPathSet == {SeedPaths[k] : k \in 1..Len(SeedPaths)}

SeedTable(draw) ==
    [p \in SeedPathSet |->
        CASE p = Prefix \o "database" ->
               [host |-> Lit("database-service"),
                port |-> Lit("3306"),
                username |-> Lit("user"),
                password |-> generateSecurePassword(draw, "database.password", 24),
                root_password |-> generateSecurePassword(draw, "database.root_password", 32),
                main_database |-> Lit("transcendence"),
                shared_database |-> Lit("transcendence"),
                url_template |-> Lit("mysql://{username}:{password}@{host}:{port}/{database}")]
          [] p = Prefix \o "jwt" ->
               [secret |-> generateSecureKey(draw, "jwt.secret", 64),
                algorithm |-> Lit("HS256"),
                expiration |-> Lit("24h"),
                refresh_expiration |-> Lit("7d"),
                issuer |-> Lit("transcendence"),
                audience |-> Lit("transcendence-users"),
                created_at |-> Timestamp]
          [] p = Prefix \o "encryption" ->
               [key |-> generateSecureKey(draw, "encryption.key", 32),
                algorithm |-> Lit("aes-256-gcm"),
                iv_length |-> Lit("16"),
                created_at |-> Timestamp]
          [] p = Prefix \o "oauth" ->
               [google_client_id |-> Lit("your-google-client-id"),
                google_client_secret |->
                    Env("GOOGLE_CLIENT_SECRET",
                        generateSecureKey(draw, "oauth.google_client_secret", 32)),
                github_client_id |-> Lit("Ov23liYOrKaDhnkpgwvT"),
                github_client_secret |-> Lit("e2761b04180f7b5b2f1199e9dc97d699e8074588"),
                github_redirect_uri |-> Lit("https://localhost/oauth/github/callback"),
                intra_client_id |-> Lit("u-s4t2ud-2e713f8650a64fa14b4653d833834963aaa8d2191f94adf2ed6090215b3b846b"),
                intra_client_secret |-> Lit("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"),
                intra_redirect_uri |-> Lit("https://localhost/oauth/42/callback"),
                callback_url_base |-> Lit("https://localhost/auth/callback"),
                created_at |-> Timestamp]
          [] p = Prefix \o "api" ->
               [rate_limit_max |-> Env("RATE_LIMIT_MAX", Lit("100")),
                rate_limit_window |-> Lit("60000"),
                cors_origin |-> Lit("http://localhost:3000,https://localhost"),
                session_secret |-> generateSecureKey(draw, "api.session_secret", 32),
                api_version |-> Lit("1.0.0"),
                created_at |-> Timestamp]
          [] p = Prefix \o "services" ->
               [auth_service_url |-> Lit("http://auth-service:3000"),
                user_service_url |-> Lit("http://user-service:3001"),
                game_service_url |-> Lit("http://game-service:3002"),
                gateway_service_url |-> Lit("http://gateway-service:3003"),
                vault_service_url |-> Lit("http://vault-service:8300"),
                auth_service_port |-> Lit("3000"),
                user_service_port |-> Lit("3001"),
                game_service_port |-> Lit("3002"),
                gateway_service_port |-> Lit("3003"),
                vault_service_port |-> Lit("8300")]
          [] p = Prefix \o "game" ->
               [ws_heartbeat_interval |-> Lit("30000"),
                ws_connection_timeout |-> Lit("60000"),
                game_tick_rate |-> Lit("60"),
                match_timeout |-> Lit("600000"),
                matchmaking_timeout |-> Lit("30000"),
                max_players_per_game |-> Lit("4"),
                force_https |-> Lit("true"),
                hsts_max_age |-> Lit("31536000"),
                security_headers |-> Lit("true")]]

(***************************************************************************)
(* initialize: waitForVault, then setupPolicies, then storeInitialSecrets. *)
(***************************************************************************)
\* mutant: initialize seeds the secrets before the policies
InitializeStepsSecretsFirst ==
    <<"waitForVault", "storeInitialSecrets", "setupPolicies">>

InitializeSteps == <<"waitForVault", "setupPolicies", "storeInitialSecrets">>

InitializeStepSet == {"waitForVault", "setupPolicies", "storeInitialSecrets"}

StepAfter(s) ==
    LET k == CHOOSE j \in 1..Len(InitializeSteps) : InitializeSteps[j] = s
    IN  IF k < Len(InitializeSteps) THEN InitializeSteps[k + 1] ELSE "done"

\* Control passes to step s of initialize; "done" is initialize returning to
\* startServer, which then calls app.listen.
Begin(s) ==
    /\ phase' = s
    /\ i' = 0
    /\ polIdx' = IF s = "setupPolicies" THEN 1 ELSE polIdx
    /\ secIdx' = IF s = "storeInitialSecrets" THEN 1 ELSE secIdx
    /\ probe' = "read"
    /\ IF s = "storeInitialSecrets"
       THEN /\ gen' = gen + 1
            /\ secrets' = SeedTable(gen + 1)
       ELSE /\ UNCHANGED gen
            /\ secrets' = <<>>
    /\ isInitialized' = (isInitialized \/ s = "done")
    /\ listening' = (s = "done")

\* mutant: startServer logs the failure of initialize and listens all the same
InitializeThrewYetListens ==
    /\ phase' = "done"
    /\ listening' = TRUE
    /\ i' = IF phase = "waitForVault" THEN i + 1 ELSE i
    /\ UNCHANGED <<polIdx, secIdx, probe, gen, isInitialized>>
    /\ secrets' = <<>>

\* startServer's catch: initialize threw, the process exits
InitializeThrew ==
    /\ phase' = "exited"
    /\ i' = IF phase = "waitForVault" THEN i + 1 ELSE i
    /\ UNCHANGED <<polIdx, secIdx, probe, gen, isInitialized, listening>>
    /\ secrets' = <<>>

Slots == 1..MaxConc

\* a slot with no request in it
Idle == [pc |-> "idle", currentJwt |-> <<>>, body |-> <<>>, stale |-> "no"]

JwtPath == Prefix \o "jwt"

\* no exchange has been observed
NoExchange == [route |-> "none"]

\* let lastError; (undefined)
NoError == [kind |-> "undefined", attempt |-> 0]

Init ==
    /\ env \in EnvChoices
    /\ phase = InitializeSteps[1]
    /\ i = 0
    /\ polIdx = 1
    /\ secIdx = 1
    /\ probe = "read"
    /\ secrets = <<>>
    /\ isInitialized = FALSE
    /\ listening = FALSE
    /\ store = <<>>
    /\ policyStore = <<>>
    /\ gen = 0
    /\ restarted = FALSE
    /\ faults = 0
    /\ log = <<>>
    /\ vaultReady = FALSE
    /\ faulted = FALSE
    /\ reqs = [r \in Slots |-> Idle]
    /\ rotSeq = <<>>
    /\ http = NoExchange
    /\ task = [fn |-> "none"]
    /\ cstep = "none"
    /\ attempt = 0
    /\ sent = 0
    /\ lastError = NoError
    /\ lastReply = [kind |-> "none"]
    /\ result = [state |-> "none"]
    /\ delays = <<>>
    /\ penv = <<>>
    /\ ready = FALSE
    /\ fetched = <<>>
    /\ emitted = <<>>
    /\ inflight = <<>>
    /\ suspended = FALSE

\* mutant: the loop test is off by one, i <= maxRetries
LoopContinuesOnceMore(n) == n <= MaxRetries

\* waitForVault: the loop test, i < maxRetries
LoopContinues(n) == n < MaxRetries

\* the answer to a request of initialize(): where sending and answer are
\* told apart, the request awaited is the one answered and initialize()
\* resumes
Answer(split) ==
    IF split
    THEN /\ suspended
         /\ inflight # <<>>
         /\ inflight' = Tail(inflight)
         /\ suspended' = FALSE
    ELSE UNCHANGED <<inflight, suspended>>

\* waitForVault: one iteration, vault.health() resolved
WaitForVaultUp(split) ==
    /\ phase = "waitForVault"
    /\ LoopContinues(i)
    /\ Answer(split)
    /\ vaultReady' = TRUE
    /\ Begin(StepAfter("waitForVault"))
    /\ UNCHANGED <<client, http, env, store, policyStore, restarted, faults, log, faulted, reqs, rotSeq>>

\* waitForVault: one iteration, vault.health() rejected, 2 s sleep; the loop
\* running out throws
WaitForVaultDown(split) ==
    /\ phase = "waitForVault"
    /\ LoopContinues(i)
    /\ Answer(split)
    /\ IF LoopContinues(i + 1)
       THEN /\ i' = i + 1
            /\ UNCHANGED <<phase, polIdx, secIdx, probe, secrets, gen,
                           isInitialized, listening>>
       ELSE /\ InitializeThrew
    /\ UNCHANGED <<client, http, env, store, policyStore, restarted, faults, log, vaultReady, faulted, reqs,
                   rotSeq>>

(***************************************************************************)
(* setupPolicies: one iteration of the loop per step.                      *)
(***************************************************************************)
\* A seeding request fails: within the budget of the specification that
\* bounds the failures, freely in the one that does not.
Fault(budgeted) ==
    IF budgeted
    THEN /\ faults < MaxFaults
         /\ faults' = faults + 1
    ELSE UNCHANGED faults

\* the backing store's policy-create: the policy is stored under its name
addPolicy(ps, name, rules) == Put(ps, name, rules)

\* mutant: no catch around vault.addPolicy, the rejection leaves initialize
PolicyRejectedThrows ==
    /\ phase' = "exited"
    /\ UNCHANGED <<i, polIdx, secIdx, probe, gen, isInitialized, listening>>
    /\ secrets' = <<>>

\* catch around vault.addPolicy: the error is logged, the loop goes on
PolicyRejected ==
    /\ polIdx' = polIdx + 1
    /\ UNCHANGED <<phase, i, secIdx, probe, secrets, gen, isInitialized,
                   listening>>

\* mutant: every policy is created with the rules of the first one
PolicyRequestFirstRules(k) ==
    [name |-> PolicyNames[k], rules |-> Policies[PolicyNames[1]]]

\* the argument of the k-th vault.addPolicy call: ({ name, rules: policy })
PolicyRequest(k) == [name |-> PolicyNames[k], rules |-> Policies[PolicyNames[k]]]

SetupPolicy(ok, budgeted, split) ==
    /\ phase = "setupPolicies"
    /\ polIdx <= Len(PolicyNames)
    /\ Answer(split)
    /\ log' = Append(log, <<"addPolicy", PolicyRequest(polIdx).name>>)
    /\ IF ok
       THEN /\ policyStore' =
                 addPolicy(policyStore, PolicyRequest(polIdx).name,
                           PolicyRequest(polIdx).rules)
            /\ polIdx' = polIdx + 1
            /\ UNCHANGED <<phase, i, secIdx, probe, secrets, gen,
                           isInitialized, listening, faults>>
       ELSE /\ Fault(budgeted)
            /\ UNCHANGED policyStore
            /\ PolicyRejected
    /\ UNCHANGED <<client, http, env, store, restarted, vaultReady, faulted, reqs, rotSeq>>

SetupPoliciesReturn ==
    /\ phase = "setupPolicies"
    /\ polIdx > Len(PolicyNames)
    /\ Begin(StepAfter("setupPolicies"))
    /\ UNCHANGED <<client, seeding, http, env, store, policyStore, restarted, faults, log, vaultReady, faulted, reqs,
                   rotSeq>>

(***************************************************************************)
(* storeInitialSecrets: per seed path a probe read, and a write when the   *)
(* read rejected.                                                          *)
(***************************************************************************)
\* the outcome of vault.read(path): "ok", "not-found", or "error" for any
\* other rejection (timeout, 5xx, permission denied)
ReadOutcomes(p) == {IF p \in DOMAIN store THEN "ok" ELSE "not-found", "error"}

\* mutant: the seed is written whatever the probe read returned
NeedsWriteAlways(outcome) == TRUE

\* try { read } catch (readError) { write }: every rejection of the probe
\* read leads to the write
NeedsWrite(outcome) == outcome # "ok"

ProbeRead(outcome, budgeted, split) ==
    /\ phase = "storeInitialSecrets"
    /\ secIdx <= Len(SeedPaths)
    /\ probe = "read"
    /\ Answer(split)
    /\ outcome \in ReadOutcomes(SeedPaths[secIdx])
    /\ log' = Append(log, <<"read", SeedPaths[secIdx]>>)
    /\ IF NeedsWrite(outcome)
       THEN /\ probe' = "write"
            /\ UNCHANGED secIdx
       ELSE /\ secIdx' = secIdx + 1
            /\ UNCHANGED probe
    /\ IF outcome = "error"
       THEN /\ Fault(budgeted)
            /\ faulted' = TRUE
       ELSE UNCHANGED <<faults, faulted>>
    /\ UNCHANGED <<client, http, env, phase, i, polIdx, secrets, isInitialized, listening, store,
                   policyStore, gen, restarted, vaultReady, reqs, rotSeq>>

\* vault.write(path, secret) after a rejected probe; a rejected write is
\* caught by the outer catch and the loop goes on
SeedWrite(ok, budgeted, split) ==
    /\ phase = "storeInitialSecrets"
    /\ secIdx <= Len(SeedPaths)
    /\ probe = "write"
    /\ Answer(split)
    /\ log' = Append(log, <<"write", SeedPaths[secIdx]>>)
    /\ IF ok
       THEN /\ store' = Put(store, SeedPaths[secIdx], secrets[SeedPaths[secIdx]])
            /\ rotSeq' = IF SeedPaths[secIdx] = JwtPath
                         THEN <<Field(secrets[JwtPath], "secret")>>
                         ELSE rotSeq
            /\ UNCHANGED faults
       ELSE /\ Fault(budgeted)
            /\ UNCHANGED <<store, rotSeq>>
    /\ secIdx' = secIdx + 1
    /\ probe' = "read"
    /\ UNCHANGED <<client, http, env, phase, i, polIdx, secrets, isInitialized, listening,
                   policyStore, gen, restarted, vaultReady, faulted, reqs>>

StoreInitialSecretsReturn ==
    /\ phase = "storeInitialSecrets"
    /\ secIdx > Len(SeedPaths)
    /\ Begin(StepAfter("storeInitialSecrets"))
    /\ UNCHANGED <<client, seeding, http, env, store, policyStore, restarted, faults, log, vaultReady, faulted, reqs,
                   rotSeq>>

(***************************************************************************)
(* The HTTP handlers, served once the process listens.  A handler that     *)
(* awaits the backing store twice is two steps; the other requests in      *)
(* flight run between them.                                                *)
(***************************************************************************)
\* a new request takes the first free slot
FreeSlot(r) ==
    /\ reqs[r].pc = "idle"
    /\ \A q \in Slots : q < r => reqs[q].pc # "idle"

\* the other rotations in flight have read a document that is no longer stored
Outdated(rs, by) ==
    [q \in Slots |->
        IF rs[q].pc = "rotate" /\ rs[q].stale = "no"
        THEN [rs[q] EXCEPT !.stale = by]
        ELSE rs[q]]

\* mutant: the written document is built without ...currentJwt
RotatedJwtNoSpread(currentJwt, newSecret) ==
    Serialize(
        [f \in {"secret", "rotated_at", "previous_secret"} |->
            CASE f = "secret" -> newSecret
              [] f = "rotated_at" -> Timestamp
              [] f = "previous_secret" -> Field(currentJwt, "secret")])

\* mutant: a previous_secret already stored is kept, previous_secret:
\* currentJwt.previous_secret || currentJwt.secret
RotatedJwtKeepsOldest(currentJwt, newSecret) ==
    Serialize(
        [f \in DOMAIN currentJwt \cup {"secret", "rotated_at", "previous_secret"} |->
            CASE f = "secret" -> newSecret
              [] f = "rotated_at" -> Timestamp
              [] f = "previous_secret" ->
                   IF "previous_secret" \in DOMAIN currentJwt
                   THEN currentJwt.previous_secret
                   ELSE Field(currentJwt, "secret")
              [] OTHER -> currentJwt[f]])

\* rotateJWTSecret: the document passed to updateSecret('jwt', ...)
RotatedJwt(currentJwt, newSecret) ==
    Serialize(
        [f \in DOMAIN currentJwt \cup {"secret", "rotated_at", "previous_secret"} |->
            CASE f = "secret" -> newSecret
              [] f = "rotated_at" -> Timestamp
              [] f = "previous_secret" -> Field(currentJwt, "secret")
              [] OTHER -> currentJwt[f]])

\* the document the store holds at a path, undefined when it holds none
Stored(p) == IF p \in DOMAIN store THEN store[p] ELSE Undefined

\* the exchange is recorded where the specification observes the exchanges
Observe(observed, exchange) ==
    IF observed THEN http' = exchange ELSE UNCHANGED http

\* JavaScript truthiness of a request field: undefined and the empty string
\* are falsy, every array and every object is truthy, the empty ones too
Truthy(v) ==
    IF v = Undefined THEN FALSE
    ELSE IF DOMAIN v = DOMAIN Undefined THEN v.len > 0
    ELSE TRUE

\* error instanceof Error ? error.message : fallback, for the rejections of
\* the backing store, which are Errors
BackendError == Lit("connect ECONNREFUSED vault:8200")

NotFoundError == Lit("Status 404")

ErrorOf(outcome) == IF outcome = "not-found" THEN NotFoundError ELSE BackendError

\* mutant: the route answers 200 whether or not rotateJWTSecret threw
RotateResponseAlwaysOk(error) ==
    [status |-> 200,
     body |-> [success |-> TRUE, message |-> Lit("JWT secret rotated successfully")]]

\* POST /api/jwt/rotate: res.json(...) when rotateJWTSecret returned, the
\* catch's res.status(500).json(...) when it threw
RotateResponse(error) ==
    IF error = Undefined
    THEN [status |-> 200,
          body |-> [success |-> TRUE,
                    message |-> Lit("JWT secret rotated successfully")]]
    ELSE [status |-> 500, body |-> [success |-> FALSE, error |-> error]]

\* the exchange of one POST /api/jwt/rotate: what getSecret('jwt') and
\* updateSecret('jwt', ...) did, the document stored when it was answered
RotateExchange(read, write, error) ==
    [route |-> "POST /api/jwt/rotate", read |-> read, write |-> write,
     before |-> Stored(JwtPath),
     status |-> RotateResponse(error).status,
     body |-> RotateResponse(error).body]

\* POST /api/jwt/rotate, up to the await of updateSecret: getSecret('jwt')
\* resolved or rejected (a rejection is answered 500 and changes nothing)
RotateJWTSecretRead(r, outcome, observed) ==
    /\ listening
    /\ FreeSlot(r)
    /\ outcome \in ReadOutcomes(JwtPath)
    /\ IF outcome = "ok"
       THEN /\ gen < MaxGen
            /\ gen' = gen + 1
            /\ reqs' = [reqs EXCEPT ![r] =
                   [pc |-> "rotate",
                    currentJwt |-> store[JwtPath],
                    body |-> RotatedJwt(store[JwtPath],
                                generateSecureKey(gen + 1, "jwt.secret", 64)),
                    stale |-> "no"]]
            /\ UNCHANGED http
       ELSE /\ UNCHANGED <<gen, reqs>>
            /\ Observe(observed, RotateExchange(outcome, "none", ErrorOf(outcome)))
    /\ UNCHANGED <<client, seeding, env, phase, i, polIdx, secIdx, probe, secrets, isInitialized,
                   listening, store, policyStore, restarted, faults, log, vaultReady,
                   faulted, rotSeq>>

\* POST /api/jwt/rotate, from the await of updateSecret to the response
RotateJWTSecretWrite(r, ok, observed) ==
    /\ listening
    /\ reqs[r].pc = "rotate"
    /\ IF ok
       THEN /\ store' = Put(store, JwtPath, reqs[r].body)
            /\ rotSeq' = IF reqs[r].stale = "no"
                         THEN Append(rotSeq, reqs[r].body.secret)
                         ELSE <<reqs[r].body.secret>>
            /\ reqs' = [Outdated(reqs, "rotate") EXCEPT ![r] = Idle]
            /\ Observe(observed, RotateExchange("ok", "ok", Undefined))
       ELSE /\ reqs' = [reqs EXCEPT ![r] = Idle]
            /\ UNCHANGED <<store, rotSeq>>
            /\ Observe(observed, RotateExchange("ok", "error", BackendError))
    /\ UNCHANGED <<client, seeding, env, phase, i, polIdx, secIdx, probe, secrets, isInitialized,
                   listening, policyStore, gen, restarted, faults, log, vaultReady,
                   faulted>>

\* the request bodies PUT /api/secrets/:path is tried with
PutPaths == {"jwt"}

PutDocs ==
    { [secret |-> Lit("s1"), algorithm |-> Lit("HS256")],
      [algorithm |-> Lit("HS256"), previous_secret |-> Lit("s0")] }

\* PUT /api/secrets/:path: a body without data is answered 400, otherwise
\* updateSecret(path, data) is awaited and answered 200, or 500 when it threw
UpdateSecret(path, data, ok, observed) ==
    /\ listening
    /\ \E r \in Slots : FreeSlot(r)
    /\ IF ~Truthy(data)
       THEN /\ Observe(observed,
                   [route |-> "PUT /api/secrets/:path", path |-> path, data |-> data,
                    replaced |-> Stored(Prefix \o path),
                    call |-> [op |-> "none"], status |-> 400,
                    body |-> [success |-> FALSE, error |-> Lit("data is required")]])
            /\ UNCHANGED <<store, rotSeq, reqs>>
       ELSE IF ok
       THEN /\ store' = Put(store, Prefix \o path, data)
            /\ IF Prefix \o path = JwtPath
               THEN /\ rotSeq' = <<Field(data, "secret")>>
                    /\ reqs' = Outdated(reqs, "put")
               ELSE UNCHANGED <<rotSeq, reqs>>
            /\ Observe(observed,
                   [route |-> "PUT /api/secrets/:path", path |-> path, data |-> data,
                    replaced |-> Stored(Prefix \o path),
                    call |-> [op |-> "write"], status |-> 200,
                    body |-> [success |-> TRUE,
                              message |-> Lit("Secret updated successfully")]])
       ELSE /\ UNCHANGED <<store, rotSeq, reqs>>
            /\ Observe(observed,
                   [route |-> "PUT /api/secrets/:path", path |-> path, data |-> data,
                    replaced |-> Stored(Prefix \o path),
                    call |-> [op |-> "write"], status |-> 500,
                    body |-> [success |-> FALSE, error |-> BackendError]])
    /\ UNCHANGED <<client, seeding, env, phase, i, polIdx, secIdx, probe, secrets, isInitialized,
                   listening, policyStore, gen, restarted, faults, log, vaultReady,
                   faulted>>

\* what a called function did: returned a value or threw an error
Returned(v) == [threw |-> FALSE, value |-> v]

Threw(e) == [threw |-> TRUE, error |-> e]

\* the outcomes of vault.health(): resolved with the status of the backing
\* store, or rejected when it cannot be reached
HealthOutcomes ==
    { [ok |-> TRUE,
       health |-> [initialized |-> TRUE, sealed |-> FALSE, standby |-> FALSE,
                   version |-> Lit("1.15.0")]],
      [ok |-> TRUE,
       health |-> [initialized |-> TRUE, sealed |-> FALSE, standby |-> TRUE,
                   version |-> Lit("1.15.0")]],
      [ok |-> FALSE, message |-> BackendError] }

\* mutant: the catch of getHealthStatus rethrows
getHealthStatusRethrows(o) ==
    IF o.ok
    THEN Returned([vault_status |-> Lit("healthy"),
                   initialized |-> o.health.initialized,
                   sealed |-> o.health.sealed,
                   standby |-> o.health.standby,
                   version |-> o.health.version])
    ELSE Threw(o.message)

\* getHealthStatus: the rejection of vault.health() is caught and returned
\* as a value
getHealthStatus(o) ==
    IF o.ok
    THEN Returned([vault_status |-> Lit("healthy"),
                   initialized |-> o.health.initialized,
                   sealed |-> o.health.sealed,
                   standby |-> o.health.standby,
                   version |-> o.health.version])
    ELSE Returned([vault_status |-> Lit("unhealthy"), error |-> o.message])

\* GET /health
GetHealth(o) ==
    /\ listening
    /\ \E r \in Slots : FreeSlot(r)
    /\ LET health == getHealthStatus(o)
       IN  http' =
             IF ~health.threw
             THEN [route |-> "GET /health", backend |-> o, status |-> 200,
                   body |-> [service |-> Lit("vault-service"),
                             status |-> Lit("healthy"),
                             timestamp |-> Timestamp,
                             vault |-> health.value]]
             ELSE [route |-> "GET /health", backend |-> o, status |-> 500,
                   body |-> [service |-> Lit("vault-service"),
                             status |-> Lit("unhealthy"),
                             timestamp |-> Timestamp,
                             error |-> health.error]]
    /\ UNCHANGED <<client, seeding, env, phase, i, polIdx, secIdx, probe, secrets, isInitialized,
                   listening, store, policyStore, gen, restarted, faults, log,
                   vaultReady, faulted, reqs, rotSeq>>

\* the paths GET /api/secrets/:path is tried with; nothing is ever stored at
\* the last one
GetPaths == {"jwt", "api", "nothing"}

\* GET /api/secrets/:path: getSecret(path) is awaited and answered 200 with
\* result.data.data, or 404 when it threw
GetSecret(path, outcome) ==
    /\ listening
    /\ \E r \in Slots : FreeSlot(r)
    /\ outcome \in ReadOutcomes(Prefix \o path)
    /\ http' =
         IF outcome = "ok"
         THEN [route |-> "GET /api/secrets/:path", path |-> path, backend |-> outcome,
               status |-> 200,
               body |-> [success |-> TRUE, data |-> store[Prefix \o path]]]
         ELSE [route |-> "GET /api/secrets/:path", path |-> path, backend |-> outcome,
               status |-> 404,
               body |-> [success |-> FALSE, error |-> ErrorOf(outcome)]]
    /\ UNCHANGED <<client, seeding, env, phase, i, polIdx, secIdx, probe, secrets, isInitialized,
                   listening, store, policyStore, gen, restarted, faults, log,
                   vaultReady, faulted, reqs, rotSeq>>

\* the request bodies POST /api/tokens/service is tried with: each field
\* missing, empty or given
TokenBodies ==
    { Serialize([serviceName |-> n, policies |-> ps]) :
        n \in {Undefined, Lit(""), Lit("auth-service")},
        ps \in {Undefined,
                [arr |-> <<>>],
                [arr |-> <<"transcendence-auth">>],
                [arr |-> <<"transcendence-db", "transcendence-service">>]} }

\* mutant: the token is asked for with the default policy added in front
TokenRequestWithDefault(serviceName, policies) ==
    [policies |-> [arr |-> <<"default">> \o policies.arr],
     ttl |-> Lit("24h"),
     renewable |-> TRUE,
     meta |-> [service |-> serviceName, created_at |-> Timestamp]]

\* createServiceToken: the argument of vault.tokenCreate
TokenRequest(serviceName, policies) ==
    [policies |-> policies,
     ttl |-> Lit("24h"),
     renewable |-> TRUE,
     meta |-> [service |-> serviceName, created_at |-> Timestamp]]

\* the backing store's token-create: the reply carries the token and, beside
\* it, what the token is bound to
tokenCreate(args) ==
    [auth |-> [client_token |-> Lit("hvs.client_token"),
               policies |-> args.policies,
               renewable |-> args.renewable,
               metadata |-> args.meta]]

\* POST /api/tokens/service: !serviceName || !policies is answered 400,
\* otherwise createServiceToken is awaited and answered 200 with
\* tokenData.auth.client_token, or 500 when it threw
PostServiceToken(body, ok) ==
    /\ listening
    /\ \E r \in Slots : FreeSlot(r)
    /\ LET serviceName == Field(body, "serviceName")
           policies == Field(body, "policies")
       IN  http' =
             IF ~Truthy(serviceName) \/ ~Truthy(policies)
             THEN [route |-> "POST /api/tokens/service", req |-> body,
                   call |-> [op |-> "none"], status |-> 400,
                   body |-> [success |-> FALSE,
                             error |-> Lit("serviceName and policies are required")]]
             ELSE IF ok
             THEN [route |-> "POST /api/tokens/service", req |-> body,
                   call |-> [op |-> "tokenCreate",
                            args |-> TokenRequest(serviceName, policies)], status |-> 200,
                   body |-> [success |-> TRUE,
                             data |-> [token |->
                                 tokenCreate(TokenRequest(serviceName, policies))
                                     .auth.client_token]]]
             ELSE [route |-> "POST /api/tokens/service", req |-> body,
                   call |-> [op |-> "tokenCreate",
                            args |-> TokenRequest(serviceName, policies)], status |-> 500,
                   body |-> [success |-> FALSE, error |-> BackendError]]
    /\ UNCHANGED <<client, seeding, env, phase, i, polIdx, secIdx, probe, secrets, isInitialized,
                   listening, store, policyStore, gen, restarted, faults, log,
                   vaultReady, faulted, reqs, rotSeq>>

\* the request bodies PUT /api/secrets/:path is tried with where the
\* exchanges are observed: data missing, empty, or a document, among them
\* one that a rotation has left
ApiPutPaths == {"jwt", "api"}

ApiPutDocs ==
    PutDocs \cup
    { Undefined,
      <<>>,
      RotatedJwt([secret |-> Lit("s2"), issuer |-> Lit("transcendence")], Lit("s3")) }

(***************************************************************************)
(* A new gateway process is started against the same backing store.        *)
(***************************************************************************)
Restart ==
    /\ phase \in {"done", "exited"}
    /\ gen < MaxGen
    /\ restarted' = TRUE
    /\ phase' = InitializeSteps[1]
    /\ i' = 0
    /\ polIdx' = 1
    /\ secIdx' = 1
    /\ probe' = "read"
    /\ secrets' = <<>>
    /\ isInitialized' = FALSE
    /\ listening' = FALSE
    /\ log' = <<>>
    /\ vaultReady' = FALSE
    /\ faulted' = FALSE
    /\ reqs' = [r \in Slots |-> Idle]
    /\ UNCHANGED <<client, seeding, http, env, store, policyStore, gen, faults, rotSeq>>

Next ==
    \/ WaitForVaultUp(FALSE)
    \/ WaitForVaultDown(FALSE)
    \/ \E ok \in BOOLEAN : SetupPolicy(ok, TRUE, FALSE)
    \/ SetupPoliciesReturn
    \/ \E outcome \in {"ok", "not-found", "error"} : ProbeRead(outcome, TRUE, FALSE)
    \/ \E ok \in BOOLEAN : SeedWrite(ok, TRUE, FALSE)
    \/ StoreInitialSecretsReturn
    \/ \E r \in Slots, outcome \in {"ok", "not-found", "error"} :
          RotateJWTSecretRead(r, outcome, FALSE)
    \/ \E r \in Slots, ok \in BOOLEAN : RotateJWTSecretWrite(r, ok, FALSE)
    \/ \E path \in PutPaths, data \in PutDocs, ok \in BOOLEAN :
          UpdateSecret(path, data, ok, FALSE)
    \/ Restart

Spec == Init /\ [][Next]_vars

\* One gateway process from its start to listening or exit, every seeding
\* request free to fail.
NextBoot ==
    \/ WaitForVaultUp(FALSE)
    \/ WaitForVaultDown(FALSE)
    \/ \E ok \in BOOLEAN : SetupPolicy(ok, FALSE, FALSE)
    \/ SetupPoliciesReturn
    \/ \E outcome \in {"ok", "not-found", "error"} : ProbeRead(outcome, FALSE, FALSE)
    \/ \E ok \in BOOLEAN : SeedWrite(ok, FALSE, FALSE)
    \/ StoreInitialSecretsReturn

SpecBoot == Init /\ [][NextBoot]_vars

\* mutant: the request is sent without await
AwaitsNothing == FALSE

\* await this.vault.health(), await this.vault.addPolicy(...),
\* await this.vault.read(path), await this.vault.write(path, secret):
\* initialize() is suspended until the request is answered
Awaits == TRUE

\* initialize() stands at a call of the backing store
AtRequest ==
    \/ phase = "waitForVault" /\ LoopContinues(i)
    \/ phase = "setupPolicies" /\ polIdx <= Len(PolicyNames)
    \/ phase = "storeInitialSecrets" /\ secIdx <= Len(SeedPaths)

\* the request of that call
NextRequest ==
    CASE phase = "waitForVault" -> <<"health", "sys/health">>
      [] phase = "setupPolicies" -> <<"addPolicy", PolicyRequest(polIdx).name>>
      [] phase = "storeInitialSecrets" -> <<probe, SeedPaths[secIdx]>>

\* initialize() sends the request it stands at
SendRequest ==
    /\ AtRequest
    /\ ~suspended
    /\ inflight' = Append(inflight, NextRequest)
    /\ suspended' = Awaits
    /\ UNCHANGED <<client, http, env, phase, i, polIdx, secIdx, probe, secrets,
                   isInitialized, listening, store, policyStore, gen, restarted,
                   faults, log, vaultReady, faulted, reqs, rotSeq>>

\* One gateway process from its start to listening or exit, the sending of
\* each request of initialize() and its answer being two steps, every
\* seeding request free to fail.
NextSeq ==
    \/ SendRequest
    \/ WaitForVaultUp(TRUE)
    \/ WaitForVaultDown(TRUE)
    \/ \E ok \in BOOLEAN : SetupPolicy(ok, FALSE, TRUE)
    \/ SetupPoliciesReturn
    \/ \E outcome \in {"ok", "not-found", "error"} : ProbeRead(outcome, FALSE, TRUE)
    \/ \E ok \in BOOLEAN : SeedWrite(ok, FALSE, TRUE)
    \/ StoreInitialSecretsReturn

SpecSeq == Init /\ [][NextSeq]_vars

\* One gateway process that starts against a reachable backing store, seeds
\* it and serves the HTTP routes, every exchange observed.
NextApi ==
    \/ WaitForVaultUp(FALSE)
    \/ SetupPolicy(TRUE, FALSE, FALSE)
    \/ SetupPoliciesReturn
    \/ \E outcome \in {"ok", "not-found"} : ProbeRead(outcome, FALSE, FALSE)
    \/ SeedWrite(TRUE, FALSE, FALSE)
    \/ StoreInitialSecretsReturn
    \/ \E o \in HealthOutcomes : GetHealth(o)
    \/ \E path \in GetPaths, outcome \in {"ok", "not-found", "error"} :
          GetSecret(path, outcome)
    \/ \E body \in TokenBodies, ok \in BOOLEAN : PostServiceToken(body, ok)
    \/ \E path \in ApiPutPaths, data \in ApiPutDocs, ok \in BOOLEAN :
          UpdateSecret(path, data, ok, TRUE)

SpecApi == Init /\ [][NextApi]_vars

\* One gateway process that starts against a reachable backing store, seeds
\* it with no more than MaxFaults of the seed writes rejected, and serves
\* POST /api/jwt/rotate and GET /api/secrets/jwt, every exchange observed.
NextRotate ==
    \/ WaitForVaultUp(FALSE)
    \/ SetupPolicy(TRUE, FALSE, FALSE)
    \/ SetupPoliciesReturn
    \/ \E outcome \in {"ok", "not-found"} : ProbeRead(outcome, FALSE, FALSE)
    \/ \E ok \in BOOLEAN : SeedWrite(ok, TRUE, FALSE)
    \/ StoreInitialSecretsReturn
    \/ \E r \in Slots, outcome \in {"ok", "not-found", "error"} :
          RotateJWTSecretRead(r, outcome, TRUE)
    \/ \E r \in Slots, ok \in BOOLEAN : RotateJWTSecretWrite(r, ok, TRUE)
    \/ \E outcome \in {"ok", "not-found", "error"} : GetSecret("jwt", outcome)

SpecRotate == Init /\ [][NextRotate]_vars

(***************************************************************************)
(* The client library of a dependent service (VaultClient.js).  One client *)
(* process runs one call: getSecret, waitForVault or loadEnvFromVault.     *)
(* Each request it sends is one step, and the gateway's answer to it is    *)
(* any of the answers the gateway and the network can give.                *)
(***************************************************************************)
\* the state of the gateway process and of the backing store
gateway ==
    <<env, phase, i, polIdx, secIdx, probe, secrets, isInitialized, listening,
      store, policyStore, gen, restarted, faults, log, vaultReady, faulted,
      reqs, rotSeq, http, inflight, suspended>>

\* waitForVault(maxRetries = 30)
ClientMaxRetries == 30

\* config.retryCount || 3
DefaultRetryCount == 3

ServiceNames == {"auth-service", "user-service", "game-service", "chat-service"}

\* the calls a client process is started for; retryCount 0 stands for a
\* config without retryCount
ClientTasks ==
    { [fn |-> "getSecret", path |-> "jwt", retryCount |-> rc] : rc \in {0, 1, 2} }
    \cup { [fn |-> "waitForVault", maxRetries |-> m] : m \in {1, 2, ClientMaxRetries} }
    \cup { [fn |-> "loadEnvFromVault", serviceName |-> n] : n \in ServiceNames }

\* process.env of the service when the call starts
ClientEnvChoices ==
    { <<>>, [PORT |-> Lit("8080"), RATE_LIMIT_MAX |-> Lit("20")],
      [JWT_SECRET |-> Lit("secret-of-the-environment"),
       GAME_TICK_RATE |-> Lit("50")] }

\* this.retryCount
RetryCount == 
    IF task.fn = "getSecret" /\ task.retryCount # 0
    THEN task.retryCount
    ELSE DefaultRetryCount

\* maxRetries of the waitForVault that runs
WaitBudget ==
    IF task.fn = "waitForVault" THEN task.maxRetries ELSE ClientMaxRetries

\* process.env[name] = value
Assign(e, name, value) ==
    [m \in DOMAIN e \cup {name} |-> IF m = name THEN value ELSE e[m]]

\* SecretManager.generateSecureToken: crypto.randomBytes(length).toString('hex');
\* the draws of a client are numbered apart from those of the gateway
generateSecureToken(draw, length) ==
    [id |-> -1 - draw, str |-> "generateSecureToken", len |-> 2 * length]

\* Math.pow(1.5, i) as a fraction, exact up to the first power that is 10 or
\* more; Math.min(..., 10000) cuts that one off like every greater one
RECURSIVE Pow15(_)
Pow15(n) ==
    IF n = 0 THEN [num |-> 1, den |-> 1]
    ELSE LET q == Pow15(n - 1)
         IN  IF q.num >= 10 * q.den THEN q
             ELSE [num |-> 3 * q.num, den |-> 2 * q.den]

\* mutant: the delay is not capped
WaitTimeUncapped(n) ==
    [num |-> 1000 * Pow15(n).num, den |-> Pow15(n).den]

\* Math.min(1000 * Math.pow(1.5, i), 10000), in milliseconds, as a fraction
WaitTime(n) ==
    LET q == Pow15(n)
    IN  IF 1000 * q.num >= 10000 * q.den
        THEN [num |-> 10000, den |-> 1]
        ELSE [num |-> 1000 * q.num, den |-> q.den]

\* the answers to a health request: HTTP 200, another status, a connection
\* error, no answer within 5 s
HealthReplies == {"200", "503", "error", "timeout"}

\* mutant: every HTTP answer resolves the health request
makeHealthRequestAnyStatus(reply) ==
    IF reply \in {"200", "503"} THEN Returned(Undefined) ELSE Threw(reply)

\* makeHealthRequest: resolves on status 200, rejects otherwise
makeHealthRequest(reply) ==
    IF reply = "200" THEN Returned(Undefined) ELSE Threw(reply)

\* portMap
PortMap ==
    [n \in {"auth-service", "user-service", "game-service", "gateway-service"} |->
        CASE n = "auth-service" -> Lit("3000")
          [] n = "user-service" -> Lit("3001")
          [] n = "game-service" -> Lit("3002")
          [] n = "gateway-service" -> Lit("3003")]

\* if (portMap[serviceName]) process.env.PORT = portMap[serviceName]
AssignPort(e, serviceName) ==
    IF serviceName \in DOMAIN PortMap
    THEN Assign(e, "PORT", PortMap[serviceName])
    ELSE e

\* the outer catch: if (!process.env.PORT) PORT = portMap[serviceName] || '3000'
FallbackPort(e, serviceName) ==
    IF Truthy(Field(e, "PORT")) THEN e
    ELSE Assign(e, "PORT",
                IF serviceName \in DOMAIN PortMap THEN PortMap[serviceName]
                ELSE Lit("3000"))

\* mutant: the section after the service URLs is skipped
NextSectionSkipping(s) ==
    CASE s = "database" -> "urls"
      [] s = "urls" -> IF task.serviceName = "game-service" THEN "game" ELSE "ports"
      [] s = "jwt" -> "api"
      [] s = "api" -> IF task.serviceName = "game-service" THEN "game" ELSE "ports"
      [] s = "game" -> "ports"

\* mutant: the JWT section is entered whatever the service is, without
\* if (serviceName === 'auth-service')
NextSectionJwtForAll(s) ==
    CASE s = "database" -> "urls"
      [] s = "urls" -> "jwt"
      [] s = "jwt" -> "api"
      [] s = "api" -> IF task.serviceName = "game-service" THEN "game" ELSE "ports"
      [] s = "game" -> "ports"

\* the section of loadEnvFromVault that follows section s
NextSection(s) ==
    CASE s = "database" -> "urls"
      [] s = "urls" -> IF task.serviceName = "auth-service" THEN "jwt" ELSE "api"
      [] s = "jwt" -> "api"
      [] s = "api" -> IF task.serviceName = "game-service" THEN "game" ELSE "ports"
      [] s = "game" -> "ports"

\* loadEnvFromVault goes on with section s, process.env being e; the port
\* section sends no request and the call returns after it
Goto(s, e) ==
    /\ attempt' = 1
    /\ sent' = 0
    /\ lastError' = NoError
    /\ IF s = "ports"
       THEN /\ cstep' = "returned"
            /\ penv' = AssignPort(e, task.serviceName)
            /\ result' = [state |-> "returned"]
       ELSE /\ cstep' = s
            /\ penv' = e
            /\ UNCHANGED result

\* mutant: loadEnvFromVault does not wait for the gateway
FirstStepWithoutWait(t) ==
    CASE t.fn = "getSecret" -> "getSecret"
      [] t.fn = "waitForVault" -> "waitForVault"
      [] t.fn = "loadEnvFromVault" -> "database"

\* where a call starts: loadEnvFromVault starts with waitForVault
FirstStep(t) ==
    IF t.fn = "getSecret" THEN "getSecret" ELSE "waitForVault"

\* a client process is started on a call
ClientStart(t, e) ==
    /\ cstep = "none"
    /\ task' = t
    /\ penv' = e
    /\ cstep' = FirstStep(t)
    /\ attempt' = IF t.fn = "getSecret" THEN 1 ELSE 0
    /\ sent' = 0
    /\ lastError' = NoError
    /\ result' = [state |-> "running"]
    /\ delays' = <<>>
    /\ ready' = FALSE
    /\ fetched' = <<>>
    /\ emitted' = <<>>
    /\ UNCHANGED <<lastReply, gateway>>

\* mutant: the loop test is i <= maxRetries
PollsLeftOnceMore(n) == n <= WaitBudget

\* waitForVault: the loop test, i < maxRetries
PollsLeft(n) == n < WaitBudget

\* waitForVault: one iteration of the loop; the loop running out throws,
\* which ends a waitForVault call and takes loadEnvFromVault to its outer
\* catch.  The sleeps of a wait that has returned inside loadEnvFromVault
\* are not kept.
ClientWaitForVault(reply) ==
    /\ task \in ClientTasks
    /\ cstep = "waitForVault"
    /\ PollsLeft(attempt)
    /\ lastReply' = [kind |-> reply]
    /\ ready' = ~makeHealthRequest(reply).threw
    /\ IF ~makeHealthRequest(reply).threw
       THEN /\ UNCHANGED lastError
            /\ IF task.fn = "waitForVault"
               THEN /\ cstep' = "returned"
                    /\ result' = [state |-> "returned"]
                    /\ sent' = sent + 1
                    /\ UNCHANGED <<attempt, penv, delays>>
               ELSE /\ cstep' = "database"
                    /\ attempt' = 1
                    /\ sent' = 0
                    /\ delays' = <<>>
                    /\ UNCHANGED <<result, penv>>
       ELSE /\ delays' = Append(delays, WaitTime(attempt))
            /\ attempt' = attempt + 1
            /\ sent' = sent + 1
            /\ UNCHANGED lastError
            /\ IF PollsLeft(attempt + 1)
               THEN UNCHANGED <<cstep, result, penv>>
               ELSE IF task.fn = "waitForVault"
               THEN /\ cstep' = "threw"
                    /\ result' = [state |-> "threw",
                                  error |-> [kind |-> "unavailable", attempt |-> 0]]
                    /\ UNCHANGED penv
               ELSE /\ cstep' = "returned"
                    /\ result' = [state |-> "returned"]
                    /\ penv' = FallbackPort(penv, task.serviceName)
    /\ UNCHANGED <<task, fetched, emitted, gateway>>

\* a property whose value is a function
JsFunction == [id |-> 0, str |-> "[Function]", len |-> 0]

\* a number as a JSON value
Num(n) == [num |-> n]

\* JSON.stringify of a response body: the properties whose value is
\* undefined or a function are left out
JsonBody(obj) ==
    [f \in {g \in DOMAIN obj : obj[g] \notin {Undefined, JsFunction}} |-> obj[f]]

\* the gateway's getDatabaseConfig, for a database document whose port is 3306
getDatabaseConfig(dbSecrets) ==
    [host |-> Field(dbSecrets, "host"),
     port |-> Num(3306),
     username |-> Field(dbSecrets, "username"),
     password |-> Field(dbSecrets, "password"),
     database |-> IF Truthy(Field(dbSecrets, "shared_database"))
                  THEN dbSecrets.shared_database
                  ELSE Lit("transcendence"),
     getDatabaseUrl |-> JsFunction]

\* `mysql://${username}:${password}@${host}:${port}/${database}` of a
\* database configuration
MysqlUrl(config) ==
    [scheme |-> "mysql://",
     username |-> Field(config, "username"),
     password |-> Field(config, "password"),
     host |-> Field(config, "host"),
     port |-> Field(config, "port"),
     database |-> Field(config, "database")]

\* the answers to a request sent with makeRequest: a 2xx answer with a JSON
\* body, or a failure: a 2xx body without success, another status, a
\* connection error, a body that is not JSON
FailureKinds == {"unsuccessful", "http", "error", "json"}

\* the error property of the body the gateway answers a failed read with
SecretNotFound == Lit("Secret not found")

\* a failure answered by the gateway carries the gateway's error string; a
\* body that is not JSON is kept as received, raw being the document its
\* text holds, Undefined where it holds none
Replies(datas) ==
    { [kind |-> "ok", data |-> d] : d \in datas \cup {Undefined} }
    \cup { [kind |-> k, error |-> SecretNotFound] : k \in {"unsuccessful", "http"} }
    \cup { [kind |-> "error"] }
    \cup { [kind |-> "json", raw |-> d] : d \in datas \cup {Undefined} }

\* mutant: the request also fails when the document it is answered with
\* holds no secret of length 32 or more
RequestValidating(reply) ==
    IF /\ reply.kind = "ok"
       /\ reply.data # Undefined
       /\ Field(reply.data, "secret").len >= 32
    THEN Returned(reply.data)
    ELSE Threw(reply.kind)

\* makeRequest followed by the test of response.success
Request(reply) ==
    IF reply.kind = "ok" THEN Returned(reply.data) ELSE Threw(reply.kind)

\* the database section: getDatabaseConfig, then dbConfig.getDatabaseUrl(...)
\* and its validation; every failure is caught and logged
DatabaseSection(r, e) ==
    IF r.threw \/ r.value = Undefined THEN e
    ELSE IF Field(r.value, "getDatabaseUrl") # JsFunction THEN e
    ELSE Assign(e, "DATABASE_URL", MysqlUrl(r.value))

ClientGetDatabaseConfig(reply) ==
    /\ task \in ClientTasks
    /\ cstep = "database"
    /\ reply \in Replies({JsonBody(getDatabaseConfig(SeedTable(1)[Prefix \o "database"]))})
    /\ lastReply' = reply
    /\ fetched' = Append(fetched, "database")
    /\ Goto(NextSection("database"), DatabaseSection(Request(reply), penv))
    /\ UNCHANGED <<task, delays, ready, emitted, gateway>>

\* what follows the scheme in the service URLs of the model
UrlRests ==
    {"auth-service:3000", "user-service:3001", "game-service:3002",
     "gateway-service:3003", "vault-service:8300"}

\* url.startsWith(prefix)
StartsWith(v, prefix) == \E rest \in UrlRests : v.str = prefix \o rest

UrlMap ==
    [v \in {"AUTH_SERVICE_URL", "USER_SERVICE_URL", "GAME_SERVICE_URL",
            "GATEWAY_SERVICE_URL"} |->
        CASE v = "AUTH_SERVICE_URL" -> "auth_service_url"
          [] v = "USER_SERVICE_URL" -> "user_service_url"
          [] v = "GAME_SERVICE_URL" -> "game_service_url"
          [] v = "GATEWAY_SERVICE_URL" -> "gateway_service_url"]

\* the service URL section: each URL that is set and starts with http:// or
\* https:// is assigned
UrlsSection(r, e) ==
    IF r.threw \/ r.value = Undefined THEN e
    ELSE LET valid == {v \in DOMAIN UrlMap :
                         LET url == Field(r.value, UrlMap[v])
                         IN  /\ Truthy(url)
                             /\ \/ StartsWith(url, "http://")
                                \/ StartsWith(url, "https://")}
         IN  [m \in DOMAIN e \cup valid |->
                 IF m \in valid THEN r.value[UrlMap[m]] ELSE e[m]]

UrlDocs ==
    { SeedTable(1)[Prefix \o "services"],
      [auth_service_url |-> Lit("ftp://auth-service:3000"),
       user_service_url |-> Lit(""),
       game_service_url |-> Lit("https://game-service:3002")] }

ClientGetServiceUrls(reply) ==
    /\ task \in ClientTasks
    /\ cstep = "urls"
    /\ reply \in Replies(UrlDocs)
    /\ lastReply' = reply
    /\ fetched' = Append(fetched, "urls")
    /\ Goto(NextSection("urls"), UrlsSection(Request(reply), penv))
    /\ UNCHANGED <<task, delays, ready, emitted, gateway>>

\* parseInt of the strings of the model; NaN where no number starts the string
NaN == [nan |-> TRUE]

ParseTable ==
    [t \in {"0", "-5", "4", "20", "50", "60", "100", "30000", "60000", "600000",
            "60abc"} |->
        CASE t = "0" -> 0
          [] t = "-5" -> -5
          [] t = "4" -> 4
          [] t = "20" -> 20
          [] t = "50" -> 50
          [] t = "60" -> 60
          [] t = "100" -> 100
          [] t = "30000" -> 30000
          [] t = "60000" -> 60000
          [] t = "600000" -> 600000
          [] t = "60abc" -> 60]

parseInt(v) ==
    IF v # Undefined /\ v.str \in DOMAIN ParseTable
    THEN [nan |-> FALSE, n |-> ParseTable[v.str]]
    ELSE NaN

\* parseInt(x) || d: NaN and 0 are falsy
OrDefault(parsed, d) == IF parsed.nan \/ parsed.n = 0 THEN d ELSE parsed.n

\* String(n)
String(n) == Lit(CHOOSE t \in DOMAIN ParseTable \ {"60abc"} : ParseTable[t] = n)

\* x || d for strings
OrElse(v, d) == IF Truthy(v) THEN v ELSE d

\* mutant: the secret of the gateway is taken whatever its length
JwtSectionUnchecked(r, e) ==
    IF /\ ~r.threw
       /\ r.value # Undefined
       /\ Truthy(Field(r.value, "secret"))
    THEN Assign(Assign(Assign(e,
             "JWT_SECRET", r.value.secret),
             "JWT_ALGORITHM", OrElse(Field(r.value, "algorithm"), Lit("HS256"))),
             "JWT_EXPIRATION", OrElse(Field(r.value, "expiration"), Lit("24h")))
    ELSE Assign(Assign(Assign(e,
             "JWT_SECRET", generateSecureToken(1, 32)),
             "JWT_ALGORITHM", Lit("HS256")),
             "JWT_EXPIRATION", Lit("24h"))

\* the JWT section of auth-service: the secret of the gateway when it is set
\* and at least 32 long, otherwise a temporary secret generated locally
JwtSection(r, e) ==
    IF /\ ~r.threw
       /\ r.value # Undefined
       /\ Truthy(Field(r.value, "secret"))
       /\ Field(r.value, "secret").len >= 32
    THEN Assign(Assign(Assign(e,
             "JWT_SECRET", r.value.secret),
             "JWT_ALGORITHM", OrElse(Field(r.value, "algorithm"), Lit("HS256"))),
             "JWT_EXPIRATION", OrElse(Field(r.value, "expiration"), Lit("24h")))
    ELSE Assign(Assign(Assign(e,
             "JWT_SECRET", generateSecureToken(1, 32)),
             "JWT_ALGORITHM", Lit("HS256")),
             "JWT_EXPIRATION", Lit("24h"))

\* the API section
ApiSection(r, e) ==
    IF r.threw \/ r.value = Undefined THEN e
    ELSE Assign(Assign(Assign(e,
             "RATE_LIMIT_MAX",
                 String(OrDefault(parseInt(Field(r.value, "rate_limit_max")), 100))),
             "RATE_LIMIT_WINDOW",
                 String(OrDefault(parseInt(Field(r.value, "rate_limit_window")), 60000))),
             "CORS_ORIGIN", OrElse(Field(r.value, "cors_origin"), Lit("*")))

GameSettings ==
    [v \in {"WS_HEARTBEAT_INTERVAL", "WS_CONNECTION_TIMEOUT", "GAME_TICK_RATE",
            "MATCH_TIMEOUT", "MATCHMAKING_TIMEOUT"} |->
        CASE v = "WS_HEARTBEAT_INTERVAL" -> <<"ws_heartbeat_interval", 30000>>
          [] v = "WS_CONNECTION_TIMEOUT" -> <<"ws_connection_timeout", 60000>>
          [] v = "GAME_TICK_RATE" -> <<"game_tick_rate", 60>>
          [] v = "MATCH_TIMEOUT" -> <<"match_timeout", 600000>>
          [] v = "MATCHMAKING_TIMEOUT" -> <<"matchmaking_timeout", 30000>>]

\* the game section of game-service: each setting that is > 0 is assigned
GameSection(r, e) ==
    IF r.threw \/ r.value = Undefined THEN e
    ELSE LET value(v) == OrDefault(parseInt(Field(r.value, GameSettings[v][1])),
                                   GameSettings[v][2])
             set == {v \in DOMAIN GameSettings : value(v) > 0}
         IN  [m \in DOMAIN e \cup set |->
                 IF m \in set THEN String(value(m)) ELSE e[m]]

\* the documents the gateway answers a section request with
JwtDocs ==
    { SeedTable(1)[JwtPath],
      [secret |-> Lit("short"), algorithm |-> Lit("HS512")],
      [secret |-> Lit("0123456789abcdef0123456789abcde"), expiration |-> Lit("1h")],
      [secret |-> Lit("0123456789abcdef0123456789abcdef"), expiration |-> Lit("1h")],
      [algorithm |-> Lit("HS256")] }

ApiDocs ==
    { SeedTable(1)[Prefix \o "api"],
      [rate_limit_max |-> Lit("abc"), rate_limit_window |-> Lit("-5")],
      [rate_limit_max |-> Lit("0"), rate_limit_window |-> Lit("60abc"),
       cors_origin |-> Lit("")] }

GameDocs ==
    { SeedTable(1)[Prefix \o "game"],
      [ws_heartbeat_interval |-> Lit("-5"), game_tick_rate |-> Lit("abc"),
       match_timeout |-> Lit("0")] }

ClientDocs(path) ==
    CASE path = "jwt" -> JwtDocs
      [] path = "api" -> ApiDocs
      [] path = "game" -> GameDocs

\* the Error a failed request rejects with: its message is built from the
\* body of the answer, `Failed to get secret: ${response.error}`,
\* `HTTP ${status}: ${jsonData.error || statusMessage}`,
\* `Invalid JSON response: ${data}`, or is the message of a connection error
RequestError(reply) ==
    CASE reply.kind = "unsuccessful" ->
           [text |-> "Failed to get secret: ", detail |-> reply.error]
      [] reply.kind = "http" ->
           [text |-> "HTTP : ", detail |-> reply.error]
      [] reply.kind = "json" ->
           [text |-> "Invalid JSON response: ", detail |-> reply.raw]
      [] reply.kind = "error" ->
           [text |-> "connect", detail |-> Undefined]

\* what attempt n of getSecret(path) logs and throws on the answer reply
GetSecretMessages(reply, path, n, more) ==
    IF reply.kind = "ok"
    THEN << [level |-> "log", text |-> "Secret retrieved from path: (attempt )",
             path |-> path, attempt |-> n] >>
    ELSE IF more
    THEN << [level |-> "warn",
             text |-> "Secret retrieval failed (attempt /), retrying...",
             attempt |-> n, of |-> RetryCount] >>
    ELSE << [level |-> "error",
             text |-> "Failed to retrieve secret from after attempts",
             path |-> path, of |-> RetryCount],
            [level |-> "throw", error |-> RequestError(reply)] >>

\* mutant: the loop test is attempt <= retryCount + 1
AttemptsLeftOnceMore(n) == n <= RetryCount

\* getSecret: the test that another attempt follows, attempt < this.retryCount
AttemptsLeft(n) == n < RetryCount

\* getSecret: one attempt.  A failed attempt that is not the last is followed
\* by a sleep of 1000 * attempt; the last one by throw lastError.  The value
\* or the error ends a getSecret call, and is handled by the section of
\* loadEnvFromVault that has called getSecret.
ClientGetSecret(reply) ==
    /\ task \in ClientTasks
    /\ cstep \in {"getSecret", "jwt", "api", "game"}
    /\ reply \in Replies(ClientDocs(IF cstep = "getSecret" THEN task.path ELSE cstep))
    /\ lastReply' = reply
    /\ fetched' = IF cstep # "getSecret" /\ sent = 0
                  THEN Append(fetched, cstep)
                  ELSE fetched
    /\ emitted' = GetSecretMessages(reply,
                                    IF cstep = "getSecret" THEN task.path ELSE cstep,
                                    attempt, AttemptsLeft(attempt))
    /\ LET r == Request(reply)
           error == [kind |-> reply.kind, attempt |-> attempt]
           outcome == IF r.threw THEN Threw(error) ELSE r
       IN  IF r.threw /\ AttemptsLeft(attempt)
           THEN /\ lastError' = error
                /\ attempt' = attempt + 1
                /\ sent' = sent + 1
                /\ UNCHANGED <<cstep, result, penv>>
           ELSE CASE cstep = "getSecret" ->
                       /\ lastError' = IF r.threw THEN error ELSE lastError
                       /\ sent' = sent + 1
                       /\ cstep' = IF r.threw THEN "threw" ELSE "returned"
                       /\ result' = IF r.threw
                                    THEN [state |-> "threw", error |-> error]
                                    ELSE [state |-> "returned", value |-> r.value]
                       /\ UNCHANGED <<attempt, penv>>
                  [] cstep = "jwt" ->
                       Goto(NextSection("jwt"), JwtSection(outcome, penv))
                  [] cstep = "api" ->
                       Goto(NextSection("api"), ApiSection(outcome, penv))
                  [] cstep = "game" ->
                       Goto(NextSection("game"), GameSection(outcome, penv))
    /\ UNCHANGED <<task, delays, ready, gateway>>

NextClient ==
    \/ \E t \in ClientTasks, e \in ClientEnvChoices : ClientStart(t, e)
    \/ \E reply \in HealthReplies : ClientWaitForVault(reply)
    \/ \E reply \in Replies({JsonBody(getDatabaseConfig(SeedTable(1)[Prefix \o "database"]))}) :
          ClientGetDatabaseConfig(reply)
    \/ \E reply \in Replies(UrlDocs) : ClientGetServiceUrls(reply)
    \/ \E reply \in Replies(JwtDocs \cup ApiDocs \cup GameDocs) : ClientGetSecret(reply)

SpecClient == Init /\ [][NextClient]_vars

\* makeRequest: the request is sent and the gateway never answers.  The
\* options hold no timeout and no 'timeout' handler is set, so neither the
\* response callback nor 'error' ever fires: the promise stays pending, and
\* with it the call that awaits it
ClientRequestUnanswered ==
    /\ task \in ClientTasks
    /\ cstep \in {"getSecret", "database", "urls", "jwt", "api", "game"}
    /\ cstep' = "pending"
    /\ sent' = sent + 1
    /\ lastReply' = [kind |-> "unanswered"]
    /\ fetched' = IF cstep # "getSecret" /\ sent = 0
                  THEN Append(fetched, cstep)
                  ELSE fetched
    /\ UNCHANGED <<task, attempt, lastError, result, delays, penv, ready, emitted,
                   gateway>>

NextClientLive ==
    \/ NextClient
    \/ ClientRequestUnanswered

\* a client process whose requests may stay unanswered; a step that can be
\* taken is taken: the timers fire and the answers that arrive are handled
SpecClientLive == Init /\ [][NextClientLive]_vars /\ WF_vars(NextClientLive)

(***************************************************************************)
(* The two other clients of the repository: the JavaScript one over the    *)
(* http module and the TypeScript one over fetch.  Neither retries a       *)
(* request nor catches by section: loadEnvFromVault rethrows what it       *)
(* catches.                                                                *)
(***************************************************************************)
Variants == {"http", "fetch"}

VariantTasks ==
    { [fn |-> "waitForVault", maxRetries |-> m, variant |-> v] :
          m \in {1, 2, ClientMaxRetries}, v \in Variants }
    \cup { [fn |-> "loadEnvFromVault", serviceName |-> n, variant |-> v] :
              n \in ServiceNames, v \in Variants }

\* setTimeout(resolve, 2000), in milliseconds, as a fraction
RetryDelay == [num |-> 2000, den |-> 1]

\* one health poll.  Over http, makeHealthRequest resolves on 200 and
\* rejects on every other answer and on its 5 s timeout.  Over fetch, an
\* answer that is not ok neither returns nor throws, a connection error
\* throws, and an unanswered request has no timeout
VariantPoll(variant, reply) ==
    IF variant = "http"
    THEN IF makeHealthRequest(reply).threw THEN "threw" ELSE "ready"
    ELSE CASE reply = "200" -> "ready"
           [] reply = "503" -> "not-ok"
           [] reply = "error" -> "threw"
           [] reply = "timeout" -> "pending"

\* waitForVault of the two clients: one iteration of the loop.  Only the
\* catch sleeps.  The loop running out throws, and loadEnvFromVault
\* rethrows it
VariantWaitForVault(reply) ==
    /\ task \in VariantTasks
    /\ cstep = "waitForVault"
    /\ PollsLeft(attempt)
    /\ lastReply' = [kind |-> reply]
    /\ LET poll == VariantPoll(task.variant, reply)
       IN  /\ ready' = (poll = "ready")
           /\ CASE poll = "ready" ->
                    IF task.fn = "waitForVault"
                    THEN /\ cstep' = "returned"
                         /\ result' = [state |-> "returned"]
                         /\ sent' = sent + 1
                         /\ UNCHANGED <<attempt, delays>>
                    ELSE /\ cstep' = "database"
                         /\ attempt' = 1
                         /\ sent' = 0
                         /\ delays' = <<>>
                         /\ UNCHANGED result
               [] poll = "pending" ->
                    /\ cstep' = "pending"
                    /\ sent' = sent + 1
                    /\ UNCHANGED <<attempt, delays, result>>
               [] OTHER ->
                    /\ delays' = IF poll = "threw"
                                 THEN Append(delays, RetryDelay)
                                 ELSE delays
                    /\ attempt' = attempt + 1
                    /\ sent' = sent + 1
                    /\ IF PollsLeft(attempt + 1)
                       THEN UNCHANGED <<cstep, result>>
                       ELSE /\ cstep' = "threw"
                            /\ result' = [state |-> "threw",
                                          error |-> [kind |-> "unavailable",
                                                     attempt |-> 0]]
    /\ UNCHANGED <<task, lastError, penv, fetched, emitted, gateway>>

\* process.env.X = value: the value is turned into a string
EnvString(v) == IF v = Undefined THEN Lit("undefined") ELSE v

\* the variables a section assigns and the fields it takes them from
VariantFields(section, variant) ==
    CASE section = "urls" -> UrlMap
      [] section = "jwt" ->
           [v \in {"JWT_SECRET", "JWT_ALGORITHM", "JWT_EXPIRATION"} |->
               CASE v = "JWT_SECRET" -> "secret"
                 [] v = "JWT_ALGORITHM" -> "algorithm"
                 [] v = "JWT_EXPIRATION" -> "expiration"]
      [] section = "api" ->
           [v \in {"RATE_LIMIT_MAX", "RATE_LIMIT_WINDOW", "CORS_ORIGIN"} |->
               CASE v = "RATE_LIMIT_MAX" -> "rate_limit_max"
                 [] v = "RATE_LIMIT_WINDOW" -> "rate_limit_window"
                 [] v = "CORS_ORIGIN" -> "cors_origin"]
      [] section = "game" ->
           [v \in DOMAIN GameSettings
                  \cup (IF variant = "fetch"
                        THEN {"FORCE_HTTPS", "HSTS_MAX_AGE", "SECURITY_HEADERS"}
                        ELSE {}) |->
               CASE v \in DOMAIN GameSettings -> GameSettings[v][1]
                 [] v = "FORCE_HTTPS" -> "force_https"
                 [] v = "HSTS_MAX_AGE" -> "hsts_max_age"
                 [] v = "SECURITY_HEADERS" -> "security_headers"]

\* a section of loadEnvFromVault on the data of its answer: every variable
\* is assigned the field as it is; the game section of the http client
\* sets the port as well
VariantApply(section, data, e, variant) ==
    IF section = "database"
    THEN Assign(e, "DATABASE_URL", MysqlUrl(data))
    ELSE LET map == VariantFields(section, variant)
             applied == [m \in DOMAIN e \cup DOMAIN map |->
                            IF m \in DOMAIN map
                            THEN EnvString(Field(data, map[m]))
                            ELSE e[m]]
         IN  IF section = "game" /\ variant = "http"
             THEN Assign(applied, "PORT", Lit("3002"))
             ELSE applied

\* the port of the http client: auth-service, user-service and
\* gateway-service; the fetch client sets none
VariantPorts(e, variant, serviceName) ==
    IF variant = "http" /\ serviceName \in DOMAIN PortMap \ {"game-service"}
    THEN Assign(e, "PORT", PortMap[serviceName])
    ELSE e

\* the documents a section request is answered with
SectionDocs(section) ==
    CASE section = "database" ->
           {JsonBody(getDatabaseConfig(SeedTable(1)[Prefix \o "database"]))}
      [] section = "urls" -> UrlDocs
      [] OTHER -> ClientDocs(section)

\* loadEnvFromVault of the two clients: one section.  The request is sent
\* once; a failed request, an answer without data, and a database
\* configuration whose getDatabaseUrl is not a function throw, and the
\* outer catch rethrows
VariantSection(reply) ==
    /\ task \in VariantTasks
    /\ cstep \in {"database", "urls", "jwt", "api", "game"}
    /\ reply \in Replies(SectionDocs(cstep))
    /\ lastReply' = reply
    /\ fetched' = Append(fetched, cstep)
    /\ sent' = sent + 1
    /\ LET r == Request(reply)
           failed == \/ r.threw
                     \/ r.value = Undefined
                     \/ /\ cstep = "database"
                        /\ Field(r.value, "getDatabaseUrl") # JsFunction
       IN  IF failed
           THEN /\ cstep' = "threw"
                /\ result' = [state |-> "threw",
                              error |-> [kind |-> IF r.threw THEN reply.kind
                                                  ELSE "TypeError",
                                         attempt |-> 0]]
                /\ UNCHANGED penv
           ELSE LET e == VariantApply(cstep, r.value, penv, task.variant)
                IN  IF NextSection(cstep) = "ports"
                    THEN /\ cstep' = "returned"
                         /\ result' = [state |-> "returned"]
                         /\ penv' = VariantPorts(e, task.variant, task.serviceName)
                    ELSE /\ cstep' = NextSection(cstep)
                         /\ penv' = e
                         /\ UNCHANGED result
    /\ UNCHANGED <<task, attempt, lastError, delays, ready, emitted, gateway>>

NextVariants ==
    \/ NextClient
    \/ \E t \in VariantTasks, e \in ClientEnvChoices : ClientStart(t, e)
    \/ \E reply \in HealthReplies : VariantWaitForVault(reply)
    \/ \E reply \in Replies(SectionDocs("database")) : VariantSection(reply)

\* the three clients
SpecVariants == Init /\ [][NextVariants]_vars

(***************************************************************************)
(* Properties.                                                             *)
(***************************************************************************)
Requests(op) == {k \in 1..Len(log) : log[k][1] = op}

Range(doc) == {doc[f] : f \in DOMAIN doc}

\* C1: bootstrap is idempotent.  While initialize runs and no probe read of
\* the run has failed other than with not-found (the store is reachable),
\* no step changes a document the store already holds, whatever earlier
\* runs, rotations and writes have left there; and no seed path is written
\* twice in one run.
C1_BootstrapIdempotent ==
    /\ [](\A j, k \in Requests("write") : log[j] = log[k] => j = k)
    /\ [][(phase \in InitializeStepSet /\ ~faulted')
            => \A p \in DOMAIN store :
                 p \in DOMAIN store' /\ store'[p] = store[p]]_vars

\* a second process has finished initialize, every probe answered, over a
\* store whose jwt document was seeded by the first process and then rotated
C1_Witness ==
    /\ restarted
    /\ phase = "done"
    /\ ~faulted
    /\ gen = 3
    /\ DOMAIN store = SeedPathSet
    /\ store[JwtPath].secret.id = 2
    /\ Field(store[JwtPath], "previous_secret").id = 1
    /\ store[Prefix \o "database"].password.id = 1

\* C2: seeding writes a seed path only after a not-found probe, so no step
\* of storeInitialSecrets changes a document the store already holds,
\* whatever the probe read returned.
C2_SeedNeverOverwrites ==
    [][phase = "storeInitialSecrets"
         => \A p \in DOMAIN store :
              p \in DOMAIN store' /\ store'[p] = store[p]]_vars

\* C3: the health wait polls at most MaxRetries times (i counts the polls
\* that failed), is left at the first poll that succeeds, and when every
\* poll has failed the process exits with no policy or secret request issued.
C3_HealthWaitBounded ==
    /\ i <= MaxRetries
    /\ phase = "waitForVault" => i < MaxRetries /\ ~vaultReady /\ log = <<>>
    /\ vaultReady => phase # "waitForVault"
    /\ (phase = "exited" /\ ~vaultReady) => i = MaxRetries /\ log = <<>>

\* all the polls of a process have failed
C3_Witness == phase = "exited" /\ i = MaxRetries /\ ~vaultReady /\ log = <<>>

\* C4: the server listens only once initialize has returned: the health wait
\* succeeded and both seeding loops ran to their end; a process whose
\* initialize threw has exited and does not listen afterwards.
C4_ListensOnlyInitialized ==
    /\ [](listening =>
            /\ phase = "done"
            /\ isInitialized
            /\ vaultReady
            /\ polIdx > Len(PolicyNames)
            /\ secIdx > Len(SeedPaths))
    /\ [](phase = "exited" => ~listening /\ ~isInitialized)
    /\ [][phase = "exited" => ~listening']_vars

\* the server listens after a complete initialize
C4_Witness ==
    /\ listening
    /\ isInitialized
    /\ Len(log) >= Len(PolicyNames) + Len(SeedPaths)

\* C5: every probe read and every write of a seed path is issued after the
\* policy-create call for the last policy.
C5_PoliciesBeforeSecrets ==
    \A k \in Requests("read") \cup Requests("write") :
        \E j \in 1..(k - 1) :
            log[j] = <<"addPolicy", PolicyNames[Len(PolicyNames)]>>

\* a seed path has been probed and written
C5_Witness == Requests("read") # {} /\ Requests("write") # {}

Targets(op) ==
    LET sel == SelectSeq(log, LAMBDA e : e[1] = op)
    IN  [k \in 1..Len(sel) |-> sel[k][2]]

PolicyNameSet == {PolicyNames[k] : k \in 1..Len(PolicyNames)}

\* C6: once the health wait has succeeded no failing policy-create, probe
\* read or secret write ends initialize: the process does not exit, the
\* policies and the seed paths are attempted in table order whatever has
\* failed, the next step can always be taken, and initialize returns with
\* isInitialized set after all four policies and all seven paths.
C6_SeedingFailuresNotFatal ==
    /\ vaultReady => phase \in {"setupPolicies", "storeInitialSecrets", "done"}
    /\ phase \in {"setupPolicies", "storeInitialSecrets"} => ENABLED NextBoot
    /\ Targets("addPolicy") = SubSeq(PolicyNames, 1, Len(Targets("addPolicy")))
    /\ Targets("read") = SubSeq(SeedPaths, 1, Len(Targets("read")))
    /\ phase = "done" =>
         /\ isInitialized
         /\ Targets("addPolicy") = PolicyNames
         /\ Targets("read") = SeedPaths

\* initialize has returned although every policy-create and every write
\* failed and a probe read was rejected
C6_Witness ==
    /\ phase = "done"
    /\ isInitialized
    /\ faulted
    /\ store = <<>>
    /\ policyStore = <<>>
    /\ Len(log) = Len(PolicyNames) + 2 * Len(SeedPaths)

\* C7 as stated: after initialize the store holds exactly the four policies.
C7_AllFourPolicies ==
    phase = "done" => DOMAIN policyStore = PolicyNameSet

\* C7 as amended: a rejected policy-create does not end initialize; the
\* store holds no policy but the four of the table, each under its name
\* with the rules of the table; a policy once installed keeps its rules
\* through every later run; and the policy store changes only by the
\* create call of the policy being attempted.
C7_PoliciesIdempotent ==
    /\ [](\A n \in DOMAIN policyStore :
            n \in PolicyNameSet /\ policyStore[n] = Policies[n])
    /\ [][\A n \in DOMAIN policyStore :
            n \in DOMAIN policyStore' /\ policyStore'[n] = policyStore[n]]_vars
    /\ [][policyStore' # policyStore =>
            /\ phase = "setupPolicies"
            /\ log' = Append(log, <<"addPolicy", PolicyNames[polIdx]>>)
            /\ DOMAIN policyStore' = DOMAIN policyStore \cup {PolicyNames[polIdx]}]_vars
    /\ [][phase = "setupPolicies" => phase' # "exited"]_vars

\* a first initialize has returned after a policy-create was rejected: the
\* store holds three of the four policies
C7_Witness ==
    /\ ~restarted
    /\ phase = "done"
    /\ isInitialized
    /\ Cardinality(DOMAIN policyStore) = Len(PolicyNames) - 1

\* r's rotation has written its document
RotationWritten(r) ==
    /\ reqs[r].pc = "rotate"
    /\ reqs'[r].pc = "idle"
    /\ store' # store

\* C8: a rotation that succeeds on the document D it has read writes a
\* document with every other field of D unchanged, a fresh secret of 128
\* hex digits that differs from D.secret and from every value stored, and
\* previous_secret equal to D.secret.
C8_RotationWrites ==
    [][\A r \in Slots : RotationWritten(r) =>
         LET D == reqs[r].currentJwt
             N == store'[JwtPath]
         IN  /\ \A f \in DOMAIN D \ {"secret", "rotated_at", "previous_secret"} :
                  f \in DOMAIN N /\ N[f] = D[f]
             /\ "secret" \in DOMAIN N
             /\ N.secret # Field(D, "secret")
             /\ N.secret.len = 128
             /\ \A p \in DOMAIN store : N.secret \notin Range(store[p])
             /\ Field(N, "previous_secret") = Field(D, "secret")
             /\ "rotated_at" \in DOMAIN N]_vars

\* the document {secret: "s1", algorithm: "HS256"} has been rotated
C8_Witness ==
    /\ JwtPath \in DOMAIN store
    /\ DOMAIN store[JwtPath] = {"secret", "algorithm", "rotated_at", "previous_secret"}
    /\ store[JwtPath].previous_secret = Lit("s1")
    /\ store[JwtPath].algorithm = Lit("HS256")
    /\ store[JwtPath].secret.id > 0

\* C9: after two or more rotations that followed one another the document
\* holds the last secret written, holds the one before it as
\* previous_secret, and holds no older secret in any field.
C9_OnePreviousSecret ==
    Len(rotSeq) >= 3 =>
        LET doc == store[JwtPath]
            n == Len(rotSeq)
        IN  /\ Field(doc, "secret") = rotSeq[n]
            /\ Field(doc, "previous_secret") = rotSeq[n - 1]
            /\ \A k \in 1..(n - 2) :
                 rotSeq[k] # Undefined => rotSeq[k] \notin Range(doc)

\* the seeded jwt document has been rotated twice
C9_Witness ==
    /\ Len(rotSeq) = 3
    /\ rotSeq[1].id = 1
    /\ store[JwtPath].secret.id = 3

\* C10: rotations are atomic with respect to one another: a rotation that
\* writes finds in the store the document it has read or the one another
\* rotation has written from it, so its previous_secret is the secret that
\* was active when it wrote.
C10_RotationsSerializable ==
    [][\A r \in Slots : (RotationWritten(r) /\ reqs[r].stale # "put") =>
         Field(store'[JwtPath], "previous_secret")
             = Field(store[JwtPath], "secret")]_vars

\* C11: GET /health answers 200 when the health check of the backing store
\* succeeds, and 500 with status "unhealthy" when the backing store is
\* unreachable.
C11_HealthStatusCode ==
    http.route = "GET /health" =>
        IF http.backend.ok
        THEN http.status = 200
        ELSE http.status = 500 /\ http.body.status = Lit("unhealthy")

\* C12: getHealthStatus never throws: whatever vault.health() did, the
\* health route has answered from the value getHealthStatus returned, which
\* is vault_status "healthy" with initialized, sealed, standby and version of
\* the backing store when the call succeeded, and vault_status "unhealthy"
\* when it failed.
C12_HealthStatusIsAValue ==
    /\ \A o \in HealthOutcomes : ~getHealthStatus(o).threw
    /\ http.route = "GET /health" =>
         /\ "vault" \in DOMAIN http.body
         /\ IF http.backend.ok
            THEN /\ http.body.vault.vault_status = Lit("healthy")
                 /\ \A f \in {"initialized", "sealed", "standby", "version"} :
                      http.body.vault[f] = http.backend.health[f]
            ELSE /\ http.body.vault.vault_status = Lit("unhealthy")
                 /\ DOMAIN http.body.vault = {"vault_status", "error"}

\* the health route has answered while the backing store was unreachable
C12_Witness ==
    /\ http.route = "GET /health"
    /\ ~http.backend.ok
    /\ http.body.vault.vault_status = Lit("unhealthy")

\* C13: a token request whose serviceName is missing or empty, or whose
\* policies is missing or the empty list, is answered 400 with success
\* false, and no token-create call is made.
C13_TokenRequestValidated ==
    http.route = "POST /api/tokens/service" =>
        LET serviceName == Field(http.req, "serviceName")
            policies == Field(http.req, "policies")
        IN  (\/ serviceName \in {Undefined, Lit("")}
             \/ policies = Undefined
             \/ policies = [arr |-> <<>>])
            => /\ http.status = 400
               /\ ~http.body.success
               /\ http.call.op = "none"

\* C14: an accepted token request makes one token-create call with the
\* policy list of the request as it was given, ttl 24h and renewable true,
\* and the answer to a created token carries the token string alone.
C14_TokenScopedToRequest ==
    http.route = "POST /api/tokens/service" =>
        /\ http.status # 400 =>
             /\ http.call.op = "tokenCreate"
             /\ http.call.args.policies = http.req.policies
             /\ http.call.args.ttl = Lit("24h")
             /\ http.call.args.renewable = TRUE
             /\ http.call.args.meta.service = http.req.serviceName
        /\ http.status = 200 =>
             /\ DOMAIN http.body = {"success", "data"}
             /\ http.body.success
             /\ DOMAIN http.body.data = {"token"}
             /\ http.body.data.token = tokenCreate(http.call.args).auth.client_token

\* a token has been created for two policies
C14_Witness ==
    /\ http.route = "POST /api/tokens/service"
    /\ http.status = 200
    /\ http.req.policies = [arr |-> <<"transcendence-db", "transcendence-service">>]
    /\ http.call.args.policies.arr = <<"transcendence-db", "transcendence-service">>

\* C15: GET /api/secrets/:path answers success with the stored document
\* when the store holds one at the path and 404 when it holds none, so that
\* 404 stands for the absence of the document; the read leaves the store
\* unchanged.
C15_ReadAnswersStore ==
    [][(http' # http /\ http'.route = "GET /api/secrets/:path") =>
         /\ store' = store
         /\ IF Prefix \o http'.path \in DOMAIN store
            THEN /\ http'.status = 200
                 /\ http'.body.success
                 /\ http'.body.data = store[Prefix \o http'.path]
            ELSE /\ http'.status = 404
                 /\ ~http'.body.success]_vars

\* C16: a PUT answered 200 has replaced the document at its path by the
\* data supplied, field for field, and has changed no other path; a PUT
\* whose write failed is answered 500 and a PUT without data 400, and both
\* leave the store as it was.
C16_PutReplacesWholesale ==
    [][(http' # http /\ http'.route = "PUT /api/secrets/:path") =>
         LET p == Prefix \o http'.path
         IN  /\ http'.status \in {200, 400, 500}
             /\ http'.status = 400 <=> http'.call.op = "none"
             /\ http'.replaced = Stored(p)
             /\ IF http'.status = 200
                THEN /\ DOMAIN store' = DOMAIN store \cup {p}
                     /\ store'[p] = http'.data
                     /\ \A q \in DOMAIN store \ {p} : store'[q] = store[q]
                ELSE store' = store]_vars

\* a PUT has replaced a rotated jwt document by one without rotated_at and
\* previous_secret, and the other seeded paths are as seeded
C16_Witness ==
    /\ http.route = "PUT /api/secrets/:path"
    /\ http.status = 200
    /\ http.path = "jwt"
    /\ {"rotated_at", "previous_secret", "issuer"} \subseteq DOMAIN http.replaced
    /\ store[JwtPath] = [secret |-> Lit("s1"), algorithm |-> Lit("HS256")]
    /\ DOMAIN store = SeedPathSet
    /\ store[Prefix \o "api"] = SeedTable(1)[Prefix \o "api"]

\* C17: a getSecret call with retry budget R sends at most R requests, one
\* per attempt; it returns at the first attempt that succeeds and sends
\* nothing after it; and when all R attempts have failed it throws the
\* error of the last attempt.
C17_GetSecretRetryBound ==
    /\ [](task.fn = "getSecret" =>
            /\ sent <= RetryCount
            /\ cstep = "getSecret" =>
                 /\ attempt <= RetryCount
                 /\ sent = attempt - 1
                 /\ lastError.attempt = sent
            /\ cstep = "returned" =>
                 /\ result.state = "returned"
                 /\ lastReply.kind = "ok"
                 /\ result.value = lastReply.data
                 /\ sent = attempt
                 /\ lastError.attempt = sent - 1
            /\ cstep = "threw" =>
                 /\ result.state = "threw"
                 /\ sent = RetryCount
                 /\ result.error = lastError
                 /\ result.error = [kind |-> lastReply.kind, attempt |-> RetryCount])
    /\ [][(task.fn = "getSecret" /\ cstep = "getSecret") =>
            /\ sent' = sent + 1
            /\ lastReply'.kind = "ok" <=> cstep' = "returned"]_vars
    /\ [][(cstep \in {"returned", "threw"}) => (sent' = sent /\ cstep' = cstep)]_vars

\* a getSecret call with the default budget has failed three times and thrown
C17_Witness ==
    /\ task.fn = "getSecret"
    /\ task.retryCount = 0
    /\ cstep = "threw"
    /\ sent = 3
    /\ result.error.attempt = 3

\* C18: waitForVault(maxRetries) sends at most maxRetries health requests;
\* it returns at the first one answered 200 and sends none after it; every
\* other answer (another status, a connection error, a timeout) is a failed
\* attempt followed by a sleep; and it throws the unavailable error after
\* exactly maxRetries failed attempts.
C18_ClientWaitBounded ==
    /\ [](task.fn = "waitForVault" =>
            /\ sent <= WaitBudget
            /\ Len(delays) <= WaitBudget
            /\ cstep = "waitForVault" =>
                 /\ sent = Len(delays)
                 /\ sent < WaitBudget
            /\ cstep = "returned" =>
                 /\ lastReply.kind = "200"
                 /\ sent = Len(delays) + 1
            /\ cstep = "threw" =>
                 /\ result.error.kind = "unavailable"
                 /\ lastReply.kind # "200"
                 /\ Len(delays) = WaitBudget
                 /\ sent = WaitBudget)
    /\ [][(task.fn = "waitForVault" /\ cstep = "waitForVault") =>
            /\ sent' = sent + 1
            /\ IF lastReply'.kind = "200"
               THEN cstep' = "returned" /\ delays' = delays
               ELSE Len(delays') = Len(delays) + 1]_vars
    /\ [][(cstep \in {"returned", "threw"}) => sent' = sent]_vars

\* a waitForVault(30) has thrown after thirty failed polls, the last one a
\* timeout
C18_Witness ==
    /\ task.fn = "waitForVault"
    /\ task.maxRetries = ClientMaxRetries
    /\ cstep = "threw"
    /\ sent = ClientMaxRetries
    /\ lastReply.kind = "timeout"

\* fractions of a millisecond
FracEq(a, b) == a.num * b.den = b.num * a.den

FracLeq(a, b) == a.num * b.den <= b.num * a.den

FracMin(a, b) == IF FracLeq(a, b) THEN a ELSE b

TenSeconds == [num |-> 10000, den |-> 1]

\* C19 as stated: the delay is 1 s after the first failed poll and twice the
\* previous delay after each further one, capped at 10 s.
C19_BackoffDoubles ==
    \A k \in 1..Len(delays) :
        IF k = 1
        THEN FracEq(delays[k], [num |-> 1000, den |-> 1])
        ELSE FracEq(delays[k],
                    FracMin([num |-> 2 * delays[k - 1].num,
                             den |-> delays[k - 1].den], TenSeconds))

\* C19 as amended: the delay is 1 s after the first failed poll and one and
\* a half times the previous delay after each further one, capped at 10 s;
\* the delays never decrease and never exceed 10 s.
C19_BackoffGrowsByHalf ==
    \A k \in 1..Len(delays) :
        /\ FracLeq(delays[k], TenSeconds)
        /\ IF k = 1
           THEN FracEq(delays[k], [num |-> 1000, den |-> 1])
           ELSE /\ FracEq(delays[k],
                          FracMin([num |-> 3 * delays[k - 1].num,
                                   den |-> 2 * delays[k - 1].den], TenSeconds))
                /\ FracLeq(delays[k - 1], delays[k])

\* thirty polls have failed: the delays go 1000, 1500, 2250, ... and stay at
\* the cap from the seventh on
C19_Witness ==
    /\ Len(delays) = ClientMaxRetries
    /\ FracEq(delays[2], [num |-> 1500, den |-> 1])
    /\ FracEq(delays[6], [num |-> 30375, den |-> 4])
    /\ delays[7] = TenSeconds
    /\ delays[ClientMaxRetries] = TenSeconds

\* C20: when every poll of the readiness wait has failed, loadEnvFromVault
\* of auth-service returns without throwing, and JWT_SECRET then holds a
\* key generated locally, of length 32 or more.
C20_DegradedStartHasKey ==
    (/\ task.fn = "loadEnvFromVault"
     /\ task.serviceName = "auth-service"
     /\ cstep \in {"returned", "threw"}
     /\ Len(delays) = ClientMaxRetries)
    => /\ result.state = "returned"
       /\ "JWT_SECRET" \in DOMAIN penv
       /\ penv.JWT_SECRET = generateSecureToken(1, 32)
       /\ penv.JWT_SECRET.len >= 32

\* the sections loadEnvFromVault(serviceName) has to fetch, in order
SectionsOf(serviceName) ==
    <<"database", "urls">>
    \o (IF serviceName = "auth-service" THEN <<"jwt">> ELSE <<>>)
    \o <<"api">>
    \o (IF serviceName = "game-service" THEN <<"game">> ELSE <<>>)

\* C21: once its readiness wait has succeeded, loadEnvFromVault never
\* throws, whatever sections fail: it returns normally having sent a request
\* for every section of the service, in order, and a section answered with
\* a usable document is applied whatever happened to the sections before it.
C21_SectionFailuresContained ==
    /\ []((task.fn = "loadEnvFromVault" /\ ready) =>
            /\ cstep # "threw"
            /\ result.state # "threw"
            /\ cstep = "returned" =>
                 /\ result.state = "returned"
                 /\ fetched = SectionsOf(task.serviceName)
                 /\ task.serviceName \in DOMAIN PortMap =>
                      penv.PORT = PortMap[task.serviceName]
            /\ cstep \notin {"returned", "waitForVault"} =>
                 /\ cstep \in Range(SectionsOf(task.serviceName))
                 /\ \E k \in 1..Len(SectionsOf(task.serviceName)) :
                      /\ SectionsOf(task.serviceName)[k] = cstep
                      /\ \/ sent = 0 /\ fetched = SubSeq(SectionsOf(task.serviceName), 1, k - 1)
                         \/ sent > 0 /\ fetched = SubSeq(SectionsOf(task.serviceName), 1, k))
    /\ [][(task.fn = "loadEnvFromVault" /\ ready /\ cstep # "returned"
           /\ lastReply'.kind = "ok" /\ lastReply'.data # Undefined) =>
            CASE cstep = "urls" ->
                   \A v \in DOMAIN UrlMap :
                       (/\ UrlMap[v] \in DOMAIN lastReply'.data
                        /\ StartsWith(lastReply'.data[UrlMap[v]], "http://"))
                       => /\ v \in DOMAIN penv'
                          /\ penv'[v] = lastReply'.data[UrlMap[v]]
              [] cstep = "jwt" -> "JWT_SECRET" \in DOMAIN penv'
              [] cstep = "api" ->
                   {"RATE_LIMIT_MAX", "RATE_LIMIT_WINDOW", "CORS_ORIGIN"}
                       \subseteq DOMAIN penv'
              [] cstep = "game" ->
                   \A v \in DOMAIN GameSettings :
                       GameSettings[v][1] \notin DOMAIN lastReply'.data
                       => /\ v \in DOMAIN penv'
                          /\ penv'[v] = String(GameSettings[v][2])
              [] OTHER -> TRUE]_vars

\* auth-service has come back from a load, started with an empty process.env,
\* in which no section gave anything: only the port and the temporary jwt
\* secret are set
C21_Witness ==
    /\ task.fn = "loadEnvFromVault"
    /\ task.serviceName = "auth-service"
    /\ ready
    /\ cstep = "returned"
    /\ lastReply.kind \in FailureKinds
    /\ fetched = <<"database", "urls", "jwt", "api">>
    /\ DOMAIN penv = {"PORT", "JWT_SECRET", "JWT_ALGORITHM", "JWT_EXPIRATION"}
    /\ penv.JWT_SECRET = generateSecureToken(1, 32)

\* the secret of the jwt document a request was answered with, Undefined
\* when the request failed or the document holds none
AnsweredSecret(reply) ==
    IF reply.kind = "ok" /\ reply.data # Undefined
    THEN Field(reply.data, "secret")
    ELSE Undefined

\* C22: for auth-service, once the readiness wait has succeeded, the load
\* returns with JWT_SECRET of length 32 or more, JWT_ALGORITHM and
\* JWT_EXPIRATION set; JWT_SECRET is the gateway's secret exactly when the
\* jwt request was answered with a secret of length 32 or more, and a value
\* generated locally otherwise.
C22_SigningKeyAlwaysUsable ==
    /\ []((/\ task.fn = "loadEnvFromVault" /\ task.serviceName = "auth-service"
           /\ ready /\ cstep \in {"api", "returned"}) =>
            /\ {"JWT_SECRET", "JWT_ALGORITHM", "JWT_EXPIRATION"} \subseteq DOMAIN penv
            /\ penv.JWT_SECRET.len >= 32
            /\ Truthy(penv.JWT_ALGORITHM)
            /\ Truthy(penv.JWT_EXPIRATION))
    /\ [][(task.fn = "loadEnvFromVault" /\ cstep = "jwt" /\ cstep' # "jwt") =>
            LET secret == AnsweredSecret(lastReply')
            IN  IF secret # Undefined /\ secret.len >= 32
                THEN /\ penv'.JWT_SECRET = secret
                     /\ penv'.JWT_SECRET # generateSecureToken(1, 32)
                ELSE /\ penv'.JWT_SECRET = generateSecureToken(1, 32)
                     /\ penv'.JWT_ALGORITHM = Lit("HS256")
                     /\ penv'.JWT_EXPIRATION = Lit("24h")]_vars

\* the jwt request of auth-service was answered with a secret of 31
\* characters and the load has returned with a generated secret of 64
C22_Witness ==
    /\ task.fn = "loadEnvFromVault"
    /\ task.serviceName = "auth-service"
    /\ ready
    /\ cstep = "api"
    /\ lastReply.kind = "ok"
    /\ AnsweredSecret(lastReply).len = 31
    /\ penv.JWT_SECRET = generateSecureToken(1, 32)
    /\ penv.JWT_SECRET.len = 64

\* the numeric variables of the API section: field and default
ApiSettings ==
    [v \in {"RATE_LIMIT_MAX", "RATE_LIMIT_WINDOW"} |->
        CASE v = "RATE_LIMIT_MAX" -> <<"rate_limit_max", 100>>
          [] v = "RATE_LIMIT_WINDOW" -> <<"rate_limit_window", 60000>>]

\* the numeric variables of a section
NumericSettings(section) ==
    IF section = "api" THEN ApiSettings ELSE GameSettings

\* a decimal numeral of a number greater than 0
PositiveNumeral(v) ==
    /\ v.str \in DOMAIN ParseTable
    /\ String(ParseTable[v.str]) = v
    /\ ParseTable[v.str] > 0

\* C23: no numeric variable of process.env is ever set to something that is
\* not the numeral of a positive number, and a section answered with a
\* document sets each of its numeric variables to the field's value when
\* that parses to a positive number and to the default otherwise.
C23_NumericSettingsValidated ==
    /\ [](task.fn = "loadEnvFromVault" =>
            \A v \in (DOMAIN ApiSettings \cup DOMAIN GameSettings) \cap DOMAIN penv :
                PositiveNumeral(penv[v]))
    /\ [][(/\ task.fn = "loadEnvFromVault" /\ cstep \in {"api", "game"}
           /\ cstep' # cstep
           /\ lastReply'.kind = "ok" /\ lastReply'.data # Undefined) =>
            \A v \in DOMAIN NumericSettings(cstep) :
                LET parsed == parseInt(Field(lastReply'.data,
                                             NumericSettings(cstep)[v][1]))
                IN  /\ v \in DOMAIN penv'
                    /\ penv'[v] = String(IF ~parsed.nan /\ parsed.n > 0
                                         THEN parsed.n
                                         ELSE NumericSettings(cstep)[v][2])]_vars

\* the document with every value replaced by another one
OtherValues(doc) ==
    IF doc = Undefined THEN Undefined
    ELSE [f \in DOMAIN doc |-> Lit("another value")]

\* the answer of a run that differs only in the secret values the gateway
\* has sent
OtherRun(reply) ==
    CASE reply.kind = "ok" -> [reply EXCEPT !.data = OtherValues(reply.data)]
      [] reply.kind = "json" -> [reply EXCEPT !.raw = OtherValues(reply.raw)]
      [] OTHER -> reply

\* C24: what an attempt of getSecret logs and throws is the same in two
\* runs that differ only in the secret values of the answer.
C24_MessagesIndependentOfSecrets ==
    [][(cstep \in {"getSecret", "jwt", "api", "game"}) =>
         emitted' = GetSecretMessages(OtherRun(lastReply'),
                                      IF cstep = "getSecret" THEN task.path ELSE cstep,
                                      attempt, AttemptsLeft(attempt))]_vars

\* C25: every call of the client comes to an end, by returning or by
\* throwing, also when requests stay unanswered.
C25_CallsTerminate ==
    (cstep # "none") ~> (cstep \in {"returned", "threw"})

\* C26: in each of the three clients, when the database request of
\* loadEnvFromVault is answered with the gateway's configuration,
\* DATABASE_URL is set to the mysql:// URL built from its username,
\* password, host, port and database, and the call ends with it.
C26_DatabaseUrlLoaded ==
    /\ [][(/\ task.fn = "loadEnvFromVault" /\ cstep = "database"
           /\ lastReply'.kind = "ok" /\ lastReply'.data # Undefined) =>
            /\ cstep' # "threw"
            /\ "DATABASE_URL" \in DOMAIN penv'
            /\ penv'.DATABASE_URL = MysqlUrl(lastReply'.data)]_vars
    /\ [][(/\ task.fn = "loadEnvFromVault" /\ "DATABASE_URL" \in DOMAIN penv
           /\ cstep \notin {"none", "waitForVault"}) =>
            /\ "DATABASE_URL" \in DOMAIN penv'
            /\ penv'.DATABASE_URL = penv.DATABASE_URL]_vars

\* C27: in each of the three clients, a health poll of waitForVault that
\* has failed is followed by a sleep before the next poll is sent: while
\* the loop runs, as many sleeps have been taken as requests were sent.
C27_PollsPacedByTimer ==
    /\ [](cstep = "waitForVault" => Len(delays) = sent)
    /\ [][(cstep = "waitForVault" /\ cstep' = "waitForVault") =>
            /\ sent' = sent + 1
            /\ Len(delays') = Len(delays) + 1]_vars

\* C28: in each of the three clients, loadEnvFromVault sends no section
\* request and changes no variable of process.env other than PORT before
\* its waitForVault has returned, which takes a health request answered
\* 200; and when the wait has failed no request is sent any more.
C28_ReadinessGating ==
    /\ []((task.fn = "loadEnvFromVault" /\ ~ready) =>
            /\ fetched = <<>>
            /\ cstep \in {"waitForVault", "returned", "threw", "pending"})
    /\ [][(task.fn = "loadEnvFromVault" /\ ~ready) =>
            /\ \A v \in (DOMAIN penv \cup DOMAIN penv') \ {"PORT"} :
                  /\ v \in DOMAIN penv
                  /\ v \in DOMAIN penv'
                  /\ penv'[v] = penv[v]
            /\ fetched' # <<>> => ready'
            /\ ready' => (cstep = "waitForVault" /\ lastReply'.kind = "200"
                          /\ cstep' = "database" /\ fetched' = <<>>)
            /\ cstep # "waitForVault" =>
                  (cstep' = cstep /\ sent' = sent /\ fetched' = fetched)]_vars
    /\ [][(task.fn = "loadEnvFromVault" /\ fetched' # fetched) => ready]_vars

\* the fetch client's loadEnvFromVault has thrown after thirty failed
\* polls, without a section request
C28_Witness ==
    /\ task \in VariantTasks
    /\ task.fn = "loadEnvFromVault"
    /\ task.variant = "fetch"
    /\ cstep = "threw"
    /\ ~ready
    /\ sent = ClientMaxRetries
    /\ fetched = <<>>

\* the requests initialize() has sent so far, answered or not, in order
Issued == log \o inflight

IsPolicyCreate(e) == e[1] = "addPolicy"

IsProbeRead(e) == e[1] = "read"

IsSeedRequest(e) == e[1] \in {"read", "write"}

\* C29: during initialize() at most one backing-store request is
\* outstanding, and initialize() is suspended on it; the policies are
\* created one at a time in the order of the policy table; the seed paths
\* are probed one at a time in the order of the seed table; and a write
\* to a seed path is sent only after the probe read of that path has been
\* answered, as the request that follows it.
C29_SeedingSequential ==
    /\ Len(inflight) <= 1
    /\ inflight # <<>> => suspended
    /\ LET created == SelectSeq(Issued, IsPolicyCreate)
       IN  /\ Len(created) <= Len(PolicyNames)
           /\ \A k \in 1..Len(created) : created[k][2] = PolicyNames[k]
    /\ LET probed == SelectSeq(Issued, IsProbeRead)
       IN  /\ Len(probed) <= Len(SeedPaths)
           /\ \A k \in 1..Len(probed) : probed[k][2] = SeedPaths[k]
    /\ LET seeded == SelectSeq(Issued, IsSeedRequest)
       IN  \A k \in 1..Len(seeded) :
               seeded[k][1] = "write" =>
                   /\ k > 1
                   /\ seeded[k - 1] = <<"read", seeded[k][2]>>
    /\ \A k \in 1..Len(inflight) :
           inflight[k][1] = "write" =>
               \E j \in 1..Len(log) : log[j] = <<"read", inflight[k][2]>>
    /\ ~AtRequest => inflight = <<>>

\* the write of the jwt seed is outstanding, its probe read answered, after
\* the four policies and the reads and writes of the paths before it
C29_Witness ==
    /\ inflight = << <<"write", JwtPath>> >>
    /\ suspended
    /\ Len(SelectSeq(log, IsPolicyCreate)) = Len(PolicyNames)
    /\ log[Len(log)] = <<"read", JwtPath>>
    /\ \E j \in 1..Len(log) : log[j][1] = "write"

\* the sections of loadEnvFromVault that send a request
RequestSections == {"database", "urls", "jwt", "api", "game"}

\* C30: a section request that has been answered is not sent again,
\* whatever validation makes of the document: loadEnvFromVault goes on
\* to the next section, taking the fallback where the document is
\* rejected (a temporary jwt secret, DATABASE_URL and a service URL left as
\* they were); a request is repeated only after it has failed, and each
\* failure takes one attempt.
C30_ValidationNotRetried ==
    /\ [][(/\ task.fn = "loadEnvFromVault" /\ task \in ClientTasks
           /\ cstep \in RequestSections /\ lastReply'.kind = "ok") =>
            /\ cstep' # cstep
            /\ cstep' \in {NextSection(cstep), "returned"}
            /\ fetched' = IF sent = 0 THEN Append(fetched, cstep) ELSE fetched
            /\ cstep = "jwt" =>
                  (~(AnsweredSecret(lastReply').len >= 32)
                   => penv'.JWT_SECRET = generateSecureToken(1, 32))
            /\ cstep = "database" => penv' = penv
            /\ cstep = "urls" =>
                  \A v \in DOMAIN UrlMap :
                      (\/ lastReply'.data = Undefined
                       \/ ~StartsWith(Field(lastReply'.data, UrlMap[v]), "http://")
                          /\ ~StartsWith(Field(lastReply'.data, UrlMap[v]), "https://"))
                      => /\ v \in DOMAIN penv' <=> v \in DOMAIN penv
                         /\ v \in DOMAIN penv => penv'[v] = penv[v]]_vars
    /\ [][(/\ task.fn = "loadEnvFromVault" /\ task \in ClientTasks
           /\ cstep \in RequestSections /\ cstep' = cstep) =>
            /\ lastReply'.kind \in FailureKinds
            /\ attempt' = attempt + 1
            /\ sent' = sent + 1
            /\ attempt' <= RetryCount
            /\ fetched' = IF sent = 0 THEN Append(fetched, cstep) ELSE fetched]_vars
    /\ [](task.fn = "loadEnvFromVault" =>
            \A j, k \in 1..Len(fetched) : fetched[j] = fetched[k] => j = k)

\* the jwt request of auth-service was answered at once with a secret of 5
\* characters: the load is at the API section with a temporary secret and
\* no attempt spent
C30_Witness ==
    /\ task.fn = "loadEnvFromVault"
    /\ task.serviceName = "auth-service"
    /\ cstep = "api"
    /\ sent = 0
    /\ attempt = 1
    /\ lastReply.kind = "ok"
    /\ AnsweredSecret(lastReply) = Lit("short")
    /\ emitted[1].attempt = 1
    /\ fetched = <<"database", "urls", "jwt">>
    /\ penv.JWT_SECRET = generateSecureToken(1, 32)

\* a step in which POST /api/jwt/rotate is answered
RotateAnswered ==
    /\ http'.route = "POST /api/jwt/rotate"
    /\ \/ http' # http
       \/ \E r \in Slots : reqs[r].pc = "rotate" /\ reqs'[r].pc = "idle"

\* the rotation that is answered failed: its read or its write was rejected
RotateFailed == http'.read # "ok" \/ http'.write = "error"

\* C31: a rotation whose read of the jwt document fails (document absent or
\* backend error) issues no write, a rotation whose read or write fails
\* leaves the stored documents as they were and is answered 500 with
\* success false, a rotation that does not fail is answered 200, and a read
\* of the jwt document returns the document that is stored.
C31_FailedRotationLeavesStore ==
    [][/\ RotateAnswered =>
            /\ http'.read # "ok" => http'.write = "none"
            /\ RotateFailed =>
                  /\ store' = store
                  /\ http'.before = Stored(JwtPath)
                  /\ http'.status = 500
                  /\ http'.body.success = FALSE
            /\ ~RotateFailed => http'.status = 200
       /\ (http'.route = "GET /api/secrets/:path" /\ http'.status = 200) =>
            http'.body.data = Field(store', Prefix \o http'.path)
      ]_vars

\* a rotation's write was rejected after an earlier rotation succeeded: the
\* stored document still holds that rotation's secret and previous_secret
C31_Witness ==
    /\ http.route = "POST /api/jwt/rotate"
    /\ http.write = "error"
    /\ http.status = 500
    /\ "previous_secret" \in DOMAIN http.before
    /\ Stored(JwtPath) = http.before

\* a rotation was answered 500 because the jwt document is absent
C31_WitnessAbsent ==
    /\ http.route = "POST /api/jwt/rotate"
    /\ http.read = "not-found"
    /\ http.status = 500
    /\ JwtPath \notin DOMAIN store


\* the variables the JWT section assigns
JwtVariables == {"JWT_SECRET", "JWT_ALGORITHM", "JWT_EXPIRATION"}

\* the variables the game section assigns in any of the clients, the port
\* apart
GameVariables ==
    UNION {DOMAIN VariantFields("game", variant) : variant \in Variants}

\* section has been requested, or is the section the call stands at
Requested(section) ==
    \/ cstep = section
    \/ \E k \in 1..Len(fetched) : fetched[k] = section

\* C32: in each of the three clients, loadEnvFromVault of a service other
\* than auth-service never requests the jwt document and no step of it
\* changes JWT_SECRET, JWT_ALGORITHM or JWT_EXPIRATION, and loadEnvFromVault
\* of a service other than game-service never requests the game document
\* and no step of it changes a game-tuning variable.
C32_SectionsOnlyWhereNeeded ==
    /\ [](task.fn = "loadEnvFromVault" =>
            /\ task.serviceName # "auth-service" => ~Requested("jwt")
            /\ task.serviceName # "game-service" => ~Requested("game"))
    /\ [][(task.fn = "loadEnvFromVault" /\ task' = task) =>
            /\ task.serviceName # "auth-service" =>
                  \A v \in JwtVariables : Field(penv', v) = Field(penv, v)
            /\ task.serviceName # "game-service" =>
                  \A v \in GameVariables : Field(penv', v) = Field(penv, v)]_vars

\* user-service has loaded its environment, the API section included, and
\* the JWT_SECRET and GAME_TICK_RATE it was started with are as they were
C32_Witness ==
    /\ task.fn = "loadEnvFromVault"
    /\ task.serviceName = "user-service"
    /\ cstep = "returned"
    /\ Requested("api")
    /\ "RATE_LIMIT_MAX" \in DOMAIN penv
    /\ Field(penv, "JWT_SECRET") = Lit("secret-of-the-environment")
    /\ Field(penv, "GAME_TICK_RATE") = Lit("50")
    /\ "JWT_ALGORITHM" \notin DOMAIN penv

====
